---- MODULE Spec2Model ----
(***************************************************************************)
(* Model of the IP denylist lookup service: the range flattener / loader   *)
(* (loadToRedis.load), the lookup engine (serve.lookupIP), the update lock *)
(* (updateLock) and the update coordinator (launch.main).                  *)
(***************************************************************************)
EXTENDS Integers, Sequences, FiniteSets, TLC

(***************************************************************************)
(* Bounds of the model.                                                    *)
(***************************************************************************)
MaxCoord == 1
MaxIntervals == 3

MaxLoads == 2
MaxRuns == 2
MaxEnd == 2
MaxInvocations == 2
MaxTicks == 3
MaxRetriesOption == 4
MaxSockets == 2
MaxMillis == 3

\* the bits of an octet: 8 in the program, scaled down with the word of four octets
OctetBits == 2

\* the data lines of the merged files that are validated
MaxLines == 2

\* config.rateLimit.windowMs and config.rateLimit.wsMaxMessages, scaled down
rateLimitWindow == 1
maxMessages == 2

\* launch.main: acquireLock(lockKey, 3600)
LockTtl == 3600

\* validateCsvFile: the data lines among the first ten lines of the file are checked
CheckedLines == 9

\* loadToRedis: const batchSize = 100000, scaled down so that a load spans several batches
batchSize == 2

(***************************************************************************)
(* WebSocket connections.  A connectionId is the text                      *)
(* `${req.socket.remoteAddress}-${Date.now()}`: the remote address and the *)
(* millisecond in which the connection was accepted.                       *)
(***************************************************************************)
RemoteAddresses == {"10.0.0.1", "10.0.0.2"}
Millis == 0..MaxMillis
Sockets == 1..MaxSockets
connectionId(remoteAddress, t) == <<remoteAddress, t>>
ConnectionIds == RemoteAddresses \X Millis
NoCount == [count |-> 0 - 1]

(***************************************************************************)
(* Tags.  A tag is the JSON text of the third CSV column; the model keeps  *)
(* the parsed fields.  One tag name contains the delimiter '|'.            *)
(***************************************************************************)
Tags ==
    { [type |-> "list", name |-> "a"],
      [type |-> "list", name |-> "b|c"],
      [type |-> "geo",  name |-> "g"] }

Coords == 0..MaxCoord

\* one parsed CSV row: r.start_int, r.end_int, r.list
Rows == { r \in [start_int : Coords, end_int : Coords, list : Tags] :
            r.start_int <= r.end_int }

VARIABLES
    file,       \* the merged CSV file the loader reads: a sequence of rows
    rows,       \* CSV rows the stream has delivered so far ('data' events)
    scratch,    \* loadToRedis: the event array
    k,          \* loadToRedis: index of the flattening loop (0-based)
    s,          \* loadToRedis: the active array of tag JSON texts
    pipeline,   \* loadToRedis: ZADD commands queued in the current pipeline
    tempKey,    \* the sorted set stored under the temporary key
    ranges,     \* the sorted set stored under the live key <prefix>ranges
    tempKeySize, \* loadToRedis: cardinality of the temporary key read before the rename
    lpc,        \* loadToRedis: position of the loader
    loads,      \* number of loads started
    versions,   \* history: the contents the live key has had, oldest first
    faults,     \* whether the store and the CSV parser can report errors in this run
    fault,      \* the kind of error the current load has met: "none", "parse" or "write"
    ipListSize, \* the list stored under <prefix>ipListSize, newest entry first
    atStart,    \* the contents of the live key when the current load started
    cache,      \* the <prefix>cache:<ip>[:dronebl] entries of the store
    lk,         \* serve: the lookupIP call in progress
    clock,      \* the time of the store in seconds
    post,       \* serve: the batch request in progress and its response
    messageCounts, \* websocket: the Map from connectionId to { count, resetTime }
    sockets,    \* websocket: the connections, each with its connectionId and what its last message met
    wsNow,      \* websocket: Date.now() in milliseconds
    admin,      \* serve: the POST /admin/cleanup-stale-lock request in progress
    lock,       \* the value stored under <prefix>update_lock
    lockTtl,    \* the time to live of the lock key in seconds, 0 when it does not exist
    api,        \* the last direct call of releaseLock or extendLock and what it returned
    status,     \* the value stored under <prefix>update_status
    now,        \* Date.now(), counted in lock acquisitions
    alive,      \* which processes are running
    hostOf,     \* the host each process runs on
    inv,        \* launch: the invocations of main(), each with its position and locals
    staging,    \* the files of the staging directory, one per plugin
    tempCsvFile, \* launch: the merged CSV being written, csvFile + '.tmp'
    csvFile,    \* launch: the live merged CSV file
    backup,     \* launch: csvFile + '.backup'
    results,    \* launch: how each plugin's load() settled in the current run
    runs,       \* number of update runs started
    rt,         \* plugins: the retryWithBackoff call in progress
    conv,       \* the ip2int call in progress
    vc,         \* the validateCsvFile call in progress
    other,      \* the load of a second deployment that uses the same store under another prefix
    args,       \* launch: the switches --download, --process and --load of the command line
    hist        \* history: what the last successful run left, and what the current run found and did

lockVars == <<lock, lockTtl, api, status, now, alive, hostOf, inv>>
loadVars == <<file, rows, scratch, k, s, pipeline, tempKey, ranges, tempKeySize, lpc, loads, versions, ipListSize,
              faults, fault, atStart>>
wsVars == <<messageCounts, sockets, wsNow>>
routeVars == <<post, wsVars, admin>>
serveVars == <<cache, lk, clock, routeVars>>
plugVars == <<rt, conv, other, vc>>
fsVars == <<staging, tempCsvFile, csvFile, backup, results, runs, hist, plugVars, args>>
vars == <<loadVars, serveVars, lockVars, fsVars>>

\* the IP strings handed to lookupIP: the dotted quad of each coordinate, and
\* (as -1) a string that is not a dotted quad
IpStrings == Coords \cup {0 - 1}

\* a cache key that does not exist (GET returns null)
NoEntry == [kind |-> "none"]

\* the cache keys: an address, with or without the suffix ':dronebl'
CacheKeys == Coords \X BOOLEAN

(***************************************************************************)
(* loadToRedis.load: reading, sorting, flattening                          *)
(***************************************************************************)

\* scratch.push({n: r.start_int, a: r.list, e: false}); scratch.push({n: r.end_int, a: r.list, e: true})
PushEvents(sc, r) ==
    sc \o << [n |-> r.start_int, a |-> r.list, e |-> FALSE],
             [n |-> r.end_int,   a |-> r.list, e |-> TRUE] >>

\* the comparator of scratch.sort: by n, then start events (e = false) first
Compare(x, y) ==
    IF x.n < y.n THEN -1
    ELSE IF x.n > y.n THEN 1
    ELSE IF (~x.e) /\ y.e THEN -1
    ELSE IF x.e /\ (~y.e) THEN 1
    ELSE 0

\* Array.prototype.sort is stable: x goes after every element not greater than it
RECURSIVE InsertSorted(_, _)
InsertSorted(sorted, x) ==
    IF sorted = << >> THEN << x >>
    ELSE IF Compare(sorted[Len(sorted)], x) <= 0 THEN Append(sorted, x)
    ELSE Append(InsertSorted(SubSeq(sorted, 1, Len(sorted) - 1), x), sorted[Len(sorted)])

RECURSIVE SortScratch(_)
SortScratch(sc) ==
    IF sc = << >> THEN << >>
    ELSE InsertSorted(SortScratch(SubSeq(sc, 1, Len(sc) - 1)), sc[Len(sc)])

\* s.indexOf(x): 1-based position of the first occurrence, 0 when absent
IndexOf(arr, x) ==
    IF \E i \in 1..Len(arr) : arr[i] = x
    THEN CHOOSE i \in 1..Len(arr) : arr[i] = x /\ \A j \in 1..(i - 1) : arr[j] # x
    ELSE 0

\* s.splice(index, 1)
Splice(arr, i) == SubSeq(arr, 1, i - 1) \o SubSeq(arr, i + 1, Len(arr))

\* s.push(cur.a) on a start event, removal of one occurrence on an end event
ActiveAfter(arr, cur) ==
    IF ~cur.e THEN Append(arr, cur.a)
    ELSE IF IndexOf(arr, cur.a) > 0 THEN Splice(arr, IndexOf(arr, cur.a))
    ELSE arr

\* variant of SegStart that begins a segment one before a start event
SegStart_StepBack(cur) == IF ~cur.e THEN cur.n - 1 ELSE cur.n + 1

\* n = cur.n for a start event, cur.n + 1 for an end event
SegStart(cur) == IF ~cur.e THEN cur.n ELSE cur.n + 1

\* variant of SegEnd that forgets the - 1 before a start event
SegEnd_NoStep(nex) == nex.n

\* m = nex.n - 1 when the successor is a start event, nex.n when it is an end event
SegEnd(nex) == IF ~nex.e THEN nex.n - 1 ELSE nex.n

\* [...new Set(s)]: first occurrences, in order
RECURSIVE Dedup(_)
Dedup(arr) ==
    IF arr = << >> THEN << >>
    ELSE LET front == Dedup(SubSeq(arr, 1, Len(arr) - 1))
             x == arr[Len(arr)]
         IN IF \E i \in 1..Len(front) : front[i] = x THEN front ELSE Append(front, x)

\* JSON.parse(i); delete j.type
StripType(tag) == [name |-> tag.name]

RECURSIVE StripAll(_)
StripAll(arr) ==
    IF arr = << >> THEN << >>
    ELSE << StripType(arr[1]) >> \o StripAll(SubSeq(arr, 2, Len(arr)))

\* data[type].push(j) for every active tag: type -> list of tags without their type
GroupByType(arr) ==
    [ty \in {arr[i].type : i \in 1..Len(arr)} |->
        StripAll(SelectSeq(arr, LAMBDA tag : tag.type = ty))]

\* the member text `${n}|${m}|${JSON.stringify(data)}` queued with score m
ZaddCommand(n, m, arr) ==
    [score |-> m, member |-> [start |-> n, end |-> m, data |-> GroupByType(arr)]]

\* pipeline.exec(): every queued ZADD is applied to the sorted set
ExecPipeline(zset, cmds) ==
    {x \in zset : \A i \in 1..Len(cmds) : cmds[i].member # x.member}
        \cup {cmds[i] : i \in 1..Len(cmds)}

\* the replies of pipeline.exec(): the commands at the positions in bad were
\* answered with an error and not applied, the others were applied
ExecResults(zset, cmds, bad) ==
    LET ok == {cmds[i] : i \in (1..Len(cmds)) \ bad}
    IN {x \in zset : \A c \in ok : c.member # x.member} \cup ok

\* the sets of commands of a pipeline the store can answer with an error
FailSets(cmds) == IF faults THEN SUBSET (1..Len(cmds)) ELSE {{}}

\* the records of a sorted set, with the score each is stored under
Members(zset) == {x.member : x \in zset}

(***************************************************************************)
(* updateLock                                                              *)
(***************************************************************************)

\* invocation i of main() runs in process i, whose process.pid is i
Procs == 1..MaxInvocations
ProcOf(i) == i
PidOf(p) == p

\* the hosts a process can run on
Hosts == {"h1", "h2"}

\* the lock key does not exist (GET returns null); also a null or empty argument
NoLock == [none |-> TRUE]

\* the text `${process.pid}-${Date.now()}`; ws tells whether blanks surround it
LockText(pid, ts) == [pid |-> pid, ts |-> ts, ws |-> FALSE]

\* String(lockValue).trim()
Trim(text) == IF text = NoLock THEN NoLock ELSE [text EXCEPT !.ws = FALSE]

\* isProcessRunning(pid), called by a process of the given host: process.kill(pid, 0)
isProcessRunning(host, pid) ==
    \E q \in Procs : alive[q] /\ hostOf[q] = host /\ PidOf(q) = pid

\* isLockStale, called by process p when GET returns lockValue
isLockStale(p, lockValue) ==
    IF lockValue = NoLock THEN FALSE
    ELSE LET pid == Trim(lockValue).pid
         IN IF pid = PidOf(p) THEN FALSE
            ELSE ~isProcessRunning(hostOf[p], pid)

\* variant of the release script that deletes without comparing
ReleaseScript_NoCompare(current, arg) == NoLock

\* the Lua script of releaseLock: the key after the call, for the trimmed argument
ReleaseScript(current, arg) == IF current = arg THEN NoLock ELSE current

\* releaseLock(lockKey, lockValue): the lock key after the call
ReleaseLockStore(current, lockValue) ==
    IF lockValue = NoLock THEN current
    ELSE ReleaseScript(current, Trim(lockValue))

\* releaseLock(lockKey, lockValue): result === 1, the script having deleted the key
ReleaseLockReturn(current, lockValue) ==
    IF lockValue = NoLock THEN FALSE
    ELSE current # NoLock /\ ReleaseScript(current, Trim(lockValue)) = NoLock

\* the Lua script of extendLock: the time to live of the key after the call
ExtendScript(current, ttl, arg, ttlSeconds) ==
    IF current # NoLock /\ current = arg THEN ttlSeconds ELSE ttl

\* extendLock(lockKey, lockValue, ttlSeconds): result === 1, EXPIRE having been applied
ExtendLockReturn(current, lockValue) == current # NoLock /\ current = lockValue

Invocations == 1..MaxInvocations

\* a file that does not exist, and a file holding the given lines
NoFile == [exists |-> FALSE, lines |-> << >>]
File(lines) == [exists |-> TRUE, lines |-> lines]

\* plugins.js: the plugins of the model and their abortOnFail settings
Plugins == {"firehol", "spamhaus"}
abortOnFail == [p \in Plugins |-> p = "firehol"]

\* launch.js: the stages of main, and the defaults of minimist for their switches
Stages == {"download", "process", "load"}
ArgsDefault == [st \in Stages |-> TRUE]

\* no update has run: no staging file, no merged CSV
FilesIdle ==
    /\ staging = [p \in Plugins |-> NoFile]
    /\ tempCsvFile = NoFile
    /\ csvFile = NoFile
    /\ backup = NoFile
    /\ results = [p \in Plugins |-> "pending"]
    /\ runs = 0
    /\ hist = [good |-> [csv |-> NoFile, ranges |-> {}],
               start |-> [csv |-> NoFile, ranges |-> {}, backup |-> NoFile],
               stages |-> {},
               merged |-> NoFile]
    /\ rt = [pc |-> "idle"]
    /\ conv = [pc |-> "idle"]
    /\ vc = [pc |-> "idle"]
    /\ other = [lpc |-> "idle", ranges |-> {}, tempKeySize |-> 0, loads |-> 0]

\* the process was started without any of the switches
FsIdle == FilesIdle /\ args = ArgsDefault

\* an invocation of main() that has not been triggered
IdleInvocation ==
    [pc |-> "idle", existingLock |-> NoLock, lockValue |-> NoLock,
     error |-> "none", result |-> "none", log |-> << >>]

\* no update has been triggered and the lock is free
LockFree ==
    /\ lock = NoLock
    /\ lockTtl = 0
    /\ api = [op |-> "none"]
    /\ status = "none"
    /\ now = 0
    /\ alive = [p \in Procs |-> TRUE]
    /\ hostOf = [p \in Procs |-> "h1"]
    /\ inv = [i \in Invocations |-> IdleInvocation]

LockIdle == LockFree /\ FsIdle

(***************************************************************************)
(* The loader as a state machine                                           *)
(***************************************************************************)

\* every CSV file of at most MaxIntervals rows
AllFiles == UNION {[1..n -> Rows] : n \in 0..MaxIntervals}

\* redis.del(tempKey) issued when load() starts, before the file is read
LoadStart ==
    /\ lpc = "start"
    /\ tempKey' = {}
    /\ rows' = << >>
    /\ scratch' = << >>
    /\ lpc' = "reading"
    /\ fault' = "none"
    /\ atStart' = ranges
    /\ UNCHANGED <<faults, file, k, s, pipeline, ranges, tempKeySize, loads, ipListSize, versions>>

\* stream.on('data'): one CSV row becomes a start event and an end event
OnData ==
    /\ lpc = "reading"
    /\ Len(rows) < Len(file)
    /\ LET r == file[Len(rows) + 1]
       IN /\ rows' = Append(rows, r)
          /\ scratch' = PushEvents(scratch, r)
    /\ UNCHANGED <<faults, fault, atStart, file, k, s, pipeline, tempKey, ranges, tempKeySize, lpc, loads, ipListSize, versions>>

\* the entry { date, size: k, lists } pushed when the file has been read; gen counts the
\* datasets the live key has had when the entry is pushed
ListSizeEntry == [size |-> Len(rows), gen |-> Len(versions)]

\* stream.on('end'), up to the start of the flattening loop: redis.lpush(<prefix>ipListSize),
\* sort, s = [], new pipeline
OnEnd ==
    /\ lpc = "reading"
    /\ Len(rows) = Len(file)
    /\ scratch' = SortScratch(scratch)
    /\ s' = << >>
    /\ k' = 0
    /\ pipeline' = << >>
    /\ lpc' = "loop"
    /\ ipListSize' = << ListSizeEntry >> \o ipListSize
    /\ UNCHANGED <<faults, fault, atStart, file, rows, tempKey, ranges, tempKeySize, loads, versions>>

\* one iteration of for (let k = 0; k < scratch.length - 1; k++)
LoopStep ==
    /\ lpc = "loop"
    /\ k < Len(scratch) - 1
    /\ LET flush == (k % batchSize) = 0
           queued == IF flush THEN << >> ELSE pipeline
           cur == scratch[k + 1]
           nex == scratch[k + 2]
           active == ActiveAfter(s, cur)
           n == SegStart(cur)
           m == SegEnd(nex)
           emit == n <= m /\ Len(active) > 0
       IN /\ \E bad \in (IF flush THEN FailSets(pipeline) ELSE {{}}) :
                /\ tempKey' = IF flush THEN ExecResults(tempKey, pipeline, bad) ELSE tempKey
                /\ fault' = IF bad # {} THEN "write" ELSE fault
          /\ s' = IF emit THEN Dedup(active) ELSE active
          /\ pipeline' = IF emit THEN Append(queued, ZaddCommand(n, m, Dedup(active)))
                         ELSE queued
    /\ k' = k + 1
    /\ UNCHANGED <<faults, atStart, file, rows, scratch, ranges, tempKeySize, lpc, loads, ipListSize, versions>>

\* after the loop: const pipelineResults = await pipeline.exec(), and the
\* check of these results for errors
FinalExec ==
    /\ lpc = "loop"
    /\ ~(k < Len(scratch) - 1)
    /\ \E bad \in FailSets(pipeline) :
          /\ tempKey' = ExecResults(tempKey, pipeline, bad)
          /\ fault' = IF bad # {} THEN "write" ELSE fault
          /\ lpc' = IF Cardinality(bad) > 0 THEN "cleanup" ELSE "written"
    /\ pipeline' = << >>
    /\ UNCHANGED <<faults, atStart, file, rows, scratch, k, s, ranges, tempKeySize, loads, ipListSize, versions>>

\* tempKeySize = await redis.zcard(tempKey); an empty temporary key aborts the load
CheckTemp ==
    /\ lpc = "written"
    /\ tempKeySize' = Cardinality(tempKey)
    /\ lpc' = IF Cardinality(tempKey) = 0 THEN "cleanup" ELSE "rename"
    /\ UNCHANGED <<faults, fault, atStart, file, rows, scratch, k, s, pipeline, tempKey, ranges, loads, ipListSize, versions>>

\* variant of Rename that adds the new records to the live key instead of replacing it
Rename_Merge ==
    /\ lpc = "rename"
    /\ ranges' = ranges \cup tempKey
    /\ tempKey' = {}
    /\ versions' = Append(versions, tempKey)
    /\ lpc' = "verify"
    /\ UNCHANGED <<faults, fault, atStart, file, rows, scratch, k, s, pipeline, tempKeySize, loads, ipListSize>>

\* await redis.rename(tempKey, redisPrefix + 'ranges'), which throws when the temporary
\* key does not exist
Rename ==
    /\ lpc = "rename"
    /\ IF tempKey = {}
       THEN /\ lpc' = "cleanup"
            /\ UNCHANGED <<ranges, tempKey, versions>>
       ELSE /\ ranges' = tempKey
            /\ tempKey' = {}
            /\ versions' = Append(versions, tempKey)
            /\ lpc' = "verify"
    /\ UNCHANGED <<faults, fault, atStart, file, rows, scratch, k, s, pipeline, tempKeySize, loads, ipListSize>>

\* finalKeySize = await redis.zcard(redisPrefix + 'ranges'), compared with tempKeySize
Verify ==
    /\ lpc = "verify"
    /\ lpc' = IF Cardinality(ranges) # tempKeySize THEN "cleanup" ELSE "deltemp"
    /\ UNCHANGED <<faults, fault, atStart, file, rows, scratch, k, s, pipeline, tempKey, ranges, tempKeySize, loads, ipListSize, versions>>

\* await redis.del(tempKey); redis.quit(); resolve()
DelTemp ==
    /\ lpc = "deltemp"
    /\ tempKey' = {}
    /\ lpc' = "done"
    /\ UNCHANGED <<faults, fault, atStart, file, rows, scratch, k, s, pipeline, ranges, tempKeySize, loads, ipListSize, versions>>

\* catch: if (await redis.exists(tempKey)) await redis.del(tempKey); reject(error)
Cleanup ==
    /\ lpc = "cleanup"
    /\ tempKey' = {}
    /\ lpc' = "failed"
    /\ UNCHANGED <<faults, fault, atStart, file, rows, scratch, k, s, pipeline, ranges, tempKeySize, loads, ipListSize, versions>>

\* csv parser 'error' event: redis.disconnect(); reject(err)
OnParseError ==
    /\ lpc = "reading"
    /\ faults
    /\ fault' = "parse"
    /\ lpc' = "failed"
    /\ UNCHANGED <<faults, atStart, file, rows, scratch, k, s, pipeline, tempKey, ranges,
                   tempKeySize, loads, ipListSize, versions>>

\* stream.on('error'), the file cannot be opened: redis.disconnect(); reject(err)
OnReadError ==
    /\ lpc = "reading"
    /\ fault' = "read"
    /\ lpc' = "failed"
    /\ UNCHANGED <<faults, atStart, file, rows, scratch, k, s, pipeline, tempKey, ranges,
                   tempKeySize, loads, ipListSize, versions>>

LoadNext ==
    \/ LoadStart \/ OnData \/ OnEnd \/ LoopStep \/ FinalExec
    \/ CheckTemp \/ Rename \/ Verify \/ DelTemp \/ Cleanup

\* createWebSocketServer: no connection has been accepted, messageCounts = new Map()
WsIdle ==
    /\ messageCounts = [id \in ConnectionIds |-> NoCount]
    /\ sockets = [c \in Sockets |-> [state |-> "none"]]
    /\ wsNow = 0

\* no lookup is in progress and the cache is empty
ServeIdle ==
    /\ cache = [key \in CacheKeys |-> NoEntry]
    /\ lk = [pc |-> "idle"]
    /\ clock = 0
    /\ post = [pc |-> "idle"]
    /\ admin = [pc |-> "idle"]
    /\ WsIdle

\* one load of an arbitrary file into an empty store
FlatInit ==
    /\ file \in AllFiles
    /\ rows = << >>
    /\ scratch = << >>
    /\ k = 0
    /\ s = << >>
    /\ pipeline = << >>
    /\ tempKey = {}
    /\ ranges = {}
    /\ tempKeySize = 0
    /\ lpc = "start"
    /\ loads = 1
    /\ ipListSize = << >>
    /\ versions = << {} >>
    /\ faults = FALSE
    /\ fault = "none"
    /\ atStart = {}
    /\ ServeIdle
    /\ LockIdle

FlatNext == LoadNext /\ UNCHANGED <<serveVars, lockVars, fsVars>>

SpecFlatten == FlatInit /\ [][FlatNext]_vars

(***************************************************************************)
(* serve.lookupIP                                                          *)
(***************************************************************************)

\* ipTools.isValidIpv4(ip)
isValidIpv4(ip) == ip \in Coords

\* ipTools.toLong(ip)
toLong(ip) == ip

\* the names whose JSON text contains the character '|'
PipeNames == {"b|c"}

\* JSON.stringify(data) contains '|'
HasPipe(data) ==
    \E ty \in DOMAIN data : \E i \in 1..Len(data[ty]) : data[ty][i].name \in PipeNames

\* const [startInt, endInt, lists] = item.split('|'): the third piece ends at the
\* first '|' of the payload text, if it has one
SplitMember(member) ==
    [startInt |-> member.start, endInt |-> member.end,
     lists |-> IF HasPipe(member.data) THEN [cut |-> TRUE]
               ELSE [cut |-> FALSE, data |-> member.data]]

\* ZRANGEBYSCORE key min +inf LIMIT 0 1: the entries of lowest score >= min
ZRangeByScore(zset, min) ==
    {x \in zset : x.score >= min /\ \A y \in zset : y.score >= min => x.score <= y.score}

\* result = redisResult; if (!result.list) result.list = []
WithList(data) ==
    [ty \in DOMAIN data \cup {"list"} |-> IF ty \in DOMAIN data THEN data[ty] ELSE << >>]

\* the value lookupIP computes from the reply of the range query: the payload,
\* null, or the SyntaxError JSON.parse throws on a cut payload text
LookupResult(answer, long) ==
    IF answer = {} THEN [kind |-> "null"]
    ELSE LET item == SplitMember((CHOOSE x \in answer : TRUE).member)
         IN IF long >= item.startInt /\ long <= item.endInt
            THEN IF item.lists.cut THEN [kind |-> "error"]
                 ELSE [kind |-> "found", data |-> WithList(item.lists.data)]
            ELSE [kind |-> "null"]

\* cacheValue = result === null ? 'null' : JSON.stringify(result)
CacheValue(result) ==
    IF result.kind = "null" THEN [kind |-> "null"] ELSE [kind |-> "json", data |-> result.data]

\* const cacheTTL = 48 * 60 * 60: the time to live of a cache entry in seconds
cacheTTL == 48 * 60 * 60

\* cacheKey = redisPrefix + 'cache:' + ip + (includeDroneBL ? ':dronebl' : '')
cacheKey(ip, includeDroneBL) == <<ip, includeDroneBL>>

\* lookupDroneBL(ip): null when the DNS has no A record for the address or the
\* query fails, and otherwise the type code of the first A record
DroneBLAnswers ==
    { [listed |-> FALSE],
      [listed |-> TRUE, entry |-> [name |-> "dronebl_type_3", source |-> "dronebl", type |-> 3]] }

\* the merge of the index result and the DroneBL result
MergeResults(redisResult, droneblResult) ==
    IF redisResult.kind = "error" THEN redisResult
    ELSE IF ~droneblResult.listed THEN redisResult
    ELSE IF redisResult.kind = "null"
    THEN [kind |-> "found",
          data |-> [ty \in {"list", "geo"} |->
                       IF ty = "list" THEN << droneblResult.entry >> ELSE << >>]]
    ELSE [kind |-> "found",
          data |-> [redisResult.data EXCEPT !["list"] = Append(@, droneblResult.entry)]]

\* lookupIP(ip, includeDroneBL) is called: an invalid string returns false at once
LookupCall(ip, includeDroneBL) ==
    /\ lk.pc \in {"idle", "returned"}
    /\ lk' = IF isValidIpv4(ip)
             THEN [pc |-> "cacheGet", ip |-> ip, dronebl |-> includeDroneBL, at |-> Len(versions)]
             ELSE [pc |-> "returned", ip |-> ip, dronebl |-> includeDroneBL, at |-> Len(versions),
                   hit |-> FALSE, result |-> [kind |-> "invalid"]]
    /\ UNCHANGED <<cache, clock, routeVars>>

\* cachedResult = await redisClient.get(cacheKey): a key whose time to live has
\* run out does not exist for GET, whether or not the store has dropped it yet;
\* a value that is neither 'null' nor JSON makes JSON.parse throw and the
\* lookup goes on as after a miss; seen records what was read
CacheGet ==
    /\ lk.pc = "cacheGet"
    /\ LET entry == cache[cacheKey(lk.ip, lk.dronebl)]
           cachedResult == IF entry # NoEntry /\ clock < entry.exp THEN entry.value ELSE NoEntry
       IN lk' = IF cachedResult.kind = "null"
                THEN [pc |-> "returned", ip |-> lk.ip, dronebl |-> lk.dronebl, at |-> lk.at,
                      hit |-> TRUE, result |-> [kind |-> "null"],
                      age |-> clock - entry.at, ver |-> entry.ver]
                ELSE IF cachedResult.kind = "json"
                THEN [pc |-> "returned", ip |-> lk.ip, dronebl |-> lk.dronebl, at |-> lk.at,
                      hit |-> TRUE, result |-> [kind |-> "found", data |-> cachedResult.data],
                      age |-> clock - entry.at, ver |-> entry.ver]
                ELSE [pc |-> "query", ip |-> lk.ip, dronebl |-> lk.dronebl, at |-> lk.at,
                      seen |-> cachedResult.kind]
    /\ UNCHANGED <<cache, clock, routeVars>>

\* results = await Promise.all(queries): the range query and, when asked for,
\* the DroneBL query; then the containment check, the parse of the member and
\* the merge
Query ==
    /\ lk.pc = "query"
    /\ LET long == toLong(lk.ip)
           found == ZRangeByScore(ranges, long)
       IN \E answer \in (IF found = {} THEN {{}} ELSE {{x} : x \in found}) :
          \E droneblResult \in (IF lk.dronebl THEN DroneBLAnswers ELSE {[listed |-> FALSE]}) :
            LET result == MergeResults(LookupResult(answer, long), droneblResult)
            IN lk' = IF result.kind = "error"
                     THEN [pc |-> "returned", ip |-> lk.ip, dronebl |-> lk.dronebl, at |-> lk.at,
                           hit |-> FALSE, result |-> result, seen |-> lk.seen]
                     ELSE [pc |-> "cacheSet", ip |-> lk.ip, dronebl |-> lk.dronebl, at |-> lk.at,
                           result |-> result, computed |-> clock, ver |-> Len(versions),
                           seen |-> lk.seen]
    /\ UNCHANGED <<cache, clock, routeVars>>

\* the entry SETEX key seconds value leaves under the key; at and ver record
\* when and from which contents of the live key the value was computed
Setex(seconds, value) ==
    [value |-> value, exp |-> clock + seconds, at |-> lk.computed, ver |-> lk.ver]

\* CacheSet writing its entry with twice the time to live
CacheSet_LongTtl ==
    /\ lk.pc = "cacheSet"
    /\ \E ok \in BOOLEAN :
        /\ cache' = IF ok
                    THEN [cache EXCEPT ![cacheKey(lk.ip, lk.dronebl)] =
                             Setex(cacheTTL + cacheTTL, CacheValue(lk.result))]
                    ELSE cache
        /\ lk' = [pc |-> "returned", ip |-> lk.ip, dronebl |-> lk.dronebl, at |-> lk.at,
                  hit |-> FALSE, result |-> lk.result, seen |-> lk.seen]
    /\ UNCHANGED <<clock, routeVars>>

\* await redisClient.setex(cacheKey, cacheTTL, cacheValue).catch(...); return result
CacheSet ==
    /\ lk.pc = "cacheSet"
    /\ \E ok \in BOOLEAN :
        /\ cache' = IF ok
                    THEN [cache EXCEPT ![cacheKey(lk.ip, lk.dronebl)] =
                             Setex(cacheTTL, CacheValue(lk.result))]
                    ELSE cache
        /\ lk' = [pc |-> "returned", ip |-> lk.ip, dronebl |-> lk.dronebl, at |-> lk.at,
                  hit |-> FALSE, result |-> lk.result, seen |-> lk.seen]
    /\ UNCHANGED <<clock, routeVars>>

\* the store drops a cache entry: at the latest some time after its time to
\* live has run out; a specification without a clock takes this step at any time
CacheExpire(key) ==
    /\ cache[key] # NoEntry
    /\ cache' = [cache EXCEPT ![key] = NoEntry]
    /\ UNCHANGED <<lk, clock, routeVars>>

\* lookupIP(ip): includeDroneBL has its default, false
LookupNext ==
    \/ \E ip \in IpStrings : LookupCall(ip, FALSE)
    \/ CacheGet \/ Query \/ CacheSet
    \/ \E q \in Coords : CacheExpire(cacheKey(q, FALSE))

(***************************************************************************)
(* Updates and lookups side by side                                        *)
(***************************************************************************)

Row(a, b, name) ==
    [start_int |-> a, end_int |-> b,
     list |-> CHOOSE tag \in Tags : tag.name = name]

\* the merged files the update runs of this specification load
CsvFiles ==
    { << >>,
      << Row(0, MaxCoord, "a") >>,
      << Row(1, MaxCoord, "g") >>,
      << Row(0, 0, "b|c") >>,
      << Row(0, 0, "g"), Row(0, MaxCoord, "a") >> }

\* launch.main reaches its load stage: load(csvFile, redisPrefix, collectGarbage)
BeginLoad ==
    /\ lpc \in {"idle", "done", "failed"}
    /\ loads < MaxLoads
    /\ file' \in CsvFiles
    /\ loads' = loads + 1
    /\ lpc' = "start"
    /\ UNCHANGED <<rows, scratch, k, s, pipeline, tempKey, ranges, tempKeySize, versions, ipListSize,
                   faults, fault, atStart>>

\* no load has been started and the store holds no index
LoadIdle ==
    /\ file = << >>
    /\ rows = << >>
    /\ scratch = << >>
    /\ k = 0
    /\ s = << >>
    /\ pipeline = << >>
    /\ tempKey = {}
    /\ ranges = {}
    /\ tempKeySize = 0
    /\ lpc = "idle"
    /\ loads = 0
    /\ ipListSize = << >>
    /\ versions = << {} >>
    /\ faults = FALSE
    /\ fault = "none"
    /\ atStart = {}

ServeInit == LoadIdle /\ ServeIdle /\ LockIdle

ServeNext ==
    \/ (BeginLoad \/ LoadNext) /\ UNCHANGED <<serveVars, lockVars, fsVars>>
    \/ LookupNext /\ UNCHANGED <<loadVars, lockVars, fsVars>>

SpecServe == ServeInit /\ [][ServeNext]_vars

(***************************************************************************)
(* Loads during which the store or the CSV parser report errors            *)
(***************************************************************************)

FaultInit ==
    /\ file = << >>
    /\ rows = << >>
    /\ scratch = << >>
    /\ k = 0
    /\ s = << >>
    /\ pipeline = << >>
    /\ tempKey = {}
    /\ ranges = {}
    /\ tempKeySize = 0
    /\ lpc = "idle"
    /\ loads = 0
    /\ ipListSize = << >>
    /\ versions = << {} >>
    /\ faults = TRUE
    /\ fault = "none"
    /\ atStart = {}
    /\ ServeIdle
    /\ LockIdle

FaultNext ==
    /\ BeginLoad \/ LoadNext \/ OnParseError
    /\ UNCHANGED <<serveVars, lockVars, fsVars>>

SpecLoadFault == FaultInit /\ [][FaultNext]_vars

\* C11: a load that met a parse error or a write error in any batch, or whose
\* temporary key was empty, does not end as done; and when a load has ended as
\* failed the temporary key does not exist and the live key holds the members
\* it held when the load started.
C11_FailedLoadLeavesLive ==
    /\ lpc = "done" => (fault = "none" /\ tempKeySize > 0)
    /\ lpc = "failed" => (tempKey = {} /\ ranges = atStart)

(***************************************************************************)
(* launch.main under the update lock                                       *)
(***************************************************************************)

\* the invocation has passed the lock and is in the download/process/load stages
InPipeline(i) == inv[i].pc \in {"download", "process", "load"} /\ alive[ProcOf(i)]

\* the process whose pid a lock text carries
Owner(text) == CHOOSE p \in Procs : PidOf(p) = text.pid

\* a cron tick or the startup call: main() is invoked in the process of i
Trigger(i) ==
    /\ inv[i].pc = "idle"
    /\ alive[ProcOf(i)]
    /\ inv' = [inv EXCEPT ![i].pc = "acq_get"]
    /\ UNCHANGED <<lock, lockTtl, api, status, now, alive, hostOf>>

\* acquireLock: existingLock = await client.get(lockKey)
AcqGet(i) ==
    /\ inv[i].pc = "acq_get"
    /\ alive[ProcOf(i)]
    /\ inv' = [inv EXCEPT ![i].pc = IF lock = NoLock THEN "acq_set" ELSE "acq_stale",
                          ![i].existingLock = lock]
    /\ UNCHANGED <<lock, lockTtl, api, status, now, alive, hostOf>>

\* acquireLock: isStale = await isLockStale(lockKey), which reads the key again;
\* a lock that is not stale makes acquireLock return false
AcqStale(i) ==
    /\ inv[i].pc = "acq_stale"
    /\ alive[ProcOf(i)]
    /\ inv' = IF isLockStale(ProcOf(i), lock)
              THEN [inv EXCEPT ![i].pc = "acq_del"]
              ELSE [inv EXCEPT ![i].pc = "chk_locked", ![i].existingLock = NoLock]
    /\ UNCHANGED <<lock, lockTtl, api, status, now, alive, hostOf>>

\* acquireLock: await client.del(lockKey) for a lock found stale
AcqDel(i) ==
    /\ inv[i].pc = "acq_del"
    /\ alive[ProcOf(i)]
    /\ lock' = NoLock
    /\ lockTtl' = 0
    /\ inv' = [inv EXCEPT ![i].pc = "acq_set"]
    /\ UNCHANGED <<api, status, now, alive, hostOf>>

\* AcqSet creating the key without a time to live (SET NX without EX)
AcqSet_NoTtl(i) ==
    /\ inv[i].pc = "acq_set"
    /\ alive[ProcOf(i)]
    /\ IF lock = NoLock
       THEN /\ lock' = LockText(PidOf(ProcOf(i)), now)
            /\ lockTtl' = 0
            /\ now' = now + 1
            /\ inv' = [inv EXCEPT ![i].pc = "get_value", ![i].existingLock = NoLock,
                                   ![i].log = Append(@, "lock acquired")]
       ELSE /\ UNCHANGED <<lock, lockTtl, now>>
            /\ inv' = [inv EXCEPT ![i].pc = "chk_locked", ![i].existingLock = NoLock]
    /\ UNCHANGED <<api, status, alive, hostOf>>

\* acquireLock: client.set(lockKey, `${pid}-${Date.now()}`, 'EX', ttlSeconds, 'NX'),
\* and the return of acquireLock
AcqSet(i) ==
    /\ inv[i].pc = "acq_set"
    /\ alive[ProcOf(i)]
    /\ IF lock = NoLock
       THEN /\ lock' = LockText(PidOf(ProcOf(i)), now)
            /\ lockTtl' = LockTtl
            /\ now' = now + 1
            /\ inv' = [inv EXCEPT ![i].pc = "get_value", ![i].existingLock = NoLock,
                                   ![i].log = Append(@, "lock acquired")]
       ELSE /\ UNCHANGED <<lock, lockTtl, now>>
            /\ inv' = [inv EXCEPT ![i].pc = "chk_locked", ![i].existingLock = NoLock]
    /\ UNCHANGED <<api, status, alive, hostOf>>

\* main, lock not acquired: isLocked(lockKey) decides between 'skipped' and
\* throw new Error('Failed to acquire update lock')
ChkLocked(i) ==
    /\ inv[i].pc = "chk_locked"
    /\ alive[ProcOf(i)]
    /\ inv' = IF lock # NoLock
              THEN [inv EXCEPT ![i].pc = "st_skipped"]
              ELSE [inv EXCEPT ![i].pc = "st_failed", ![i].error = "lock"]
    /\ UNCHANGED <<lock, lockTtl, api, status, now, alive, hostOf>>

\* main: await updateStatus('skipped', ...); return 'skipped'
StSkipped(i) ==
    /\ inv[i].pc = "st_skipped"
    /\ alive[ProcOf(i)]
    /\ status' = "skipped"
    /\ inv' = [inv EXCEPT ![i].pc = "done", ![i].result = "skipped"]
    /\ UNCHANGED <<lock, lockTtl, api, now, alive, hostOf>>

\* main: lockValue = await updateLock.getLockValue(lockKey)
GetValue(i) ==
    /\ inv[i].pc = "get_value"
    /\ alive[ProcOf(i)]
    /\ inv' = [inv EXCEPT ![i].pc = "starting", ![i].lockValue = Trim(lock)]
    /\ UNCHANGED <<lock, lockTtl, api, status, now, alive, hostOf>>

\* main: await updateStatus('in_progress', { stage: 'starting' })
Starting(i) ==
    /\ inv[i].pc = "starting"
    /\ alive[ProcOf(i)]
    /\ status' = "in_progress"
    /\ inv' = [inv EXCEPT ![i].pc = "download", ![i].log = Append(@, "in_progress starting")]
    /\ UNCHANGED <<lock, lockTtl, api, now, alive, hostOf>>

\* main: one stage (its in_progress status, then its work), which ends or throws
Stage(i, stage, next) ==
    /\ inv[i].pc = stage
    /\ alive[ProcOf(i)]
    /\ status' = "in_progress"
    /\ \E ok \in BOOLEAN :
        inv' = IF ok THEN [inv EXCEPT ![i].pc = next]
               ELSE [inv EXCEPT ![i].pc = "st_failed", ![i].error = "stage"]
    /\ UNCHANGED <<lock, lockTtl, api, now, alive, hostOf>>

\* main: await updateStatus('completed', ...)
Completed(i) ==
    /\ inv[i].pc = "completed"
    /\ alive[ProcOf(i)]
    /\ status' = "completed"
    /\ inv' = [inv EXCEPT ![i].pc = "release", ![i].log = Append(@, "completed")]
    /\ UNCHANGED <<lock, lockTtl, api, now, alive, hostOf>>

\* main: if (lockValue) await releaseLock(lockKey, lockValue); return 'success'
Release(i) ==
    /\ inv[i].pc = "release"
    /\ alive[ProcOf(i)]
    /\ lock' = ReleaseLockStore(lock, inv[i].lockValue)
    /\ lockTtl' = IF lock' = NoLock THEN 0 ELSE lockTtl
    /\ inv' = [inv EXCEPT ![i].pc = "done", ![i].result = "success",
                           ![i].log = Append(@, "releaseLock")]
    /\ UNCHANGED <<api, status, now, alive, hostOf>>

\* main, catch: await updateStatus('failed', ...)
StFailed(i) ==
    /\ inv[i].pc = "st_failed"
    /\ alive[ProcOf(i)]
    /\ status' = "failed"
    /\ inv' = [inv EXCEPT ![i].pc = "release_err"]
    /\ UNCHANGED <<lock, lockTtl, api, now, alive, hostOf>>

\* main, catch: release the lock when lockValue is set, remove the temp file, rethrow
ReleaseErr(i) ==
    /\ inv[i].pc = "release_err"
    /\ alive[ProcOf(i)]
    /\ lock' = ReleaseLockStore(lock, inv[i].lockValue)
    /\ lockTtl' = IF lock' = NoLock THEN 0 ELSE lockTtl
    /\ inv' = [inv EXCEPT ![i].pc = "done", ![i].result = "failed"]
    /\ UNCHANGED <<api, status, now, alive, hostOf>>

\* the lock key, which has a time to live, reaches it and the store removes it
LockExpire ==
    /\ lock # NoLock
    /\ lockTtl > 0
    /\ lock' = NoLock
    /\ lockTtl' = 0
    /\ UNCHANGED <<api, status, now, alive, hostOf, inv>>

\* a process dies in the middle of an update it runs
Crash(p) ==
    /\ alive[p]
    /\ \E i \in Invocations :
          ProcOf(i) = p /\ inv[i].pc \in {"get_value", "starting", "download", "process", "load"}
    /\ alive' = [alive EXCEPT ![p] = FALSE]
    /\ UNCHANGED <<lock, lockTtl, api, status, now, hostOf, inv>>

MainBody(i) ==
    \/ AcqGet(i) \/ AcqStale(i) \/ AcqDel(i) \/ AcqSet(i)
    \/ ChkLocked(i) \/ StSkipped(i) \/ GetValue(i) \/ Starting(i)
    \/ Stage(i, "download", "process")
    \/ Stage(i, "process", "load")
    \/ Stage(i, "load", "completed")
    \/ Completed(i) \/ Release(i) \/ StFailed(i) \/ ReleaseErr(i)

MainStep(i) == Trigger(i) \/ MainBody(i)

\* no update has been triggered; the processes run on one host or on several
LockInit ==
    /\ LoadIdle
    /\ ServeIdle
    /\ lock = NoLock
    /\ lockTtl = 0
    /\ api = [op |-> "none"]
    /\ status = "none"
    /\ now = 0
    /\ alive = [p \in Procs |-> TRUE]
    /\ hostOf \in {h \in [Procs -> Hosts] : h[1] = "h1"}
    /\ inv = [i \in Invocations |-> IdleInvocation]
    /\ FsIdle

LockNext ==
    /\ \/ \E i \in Invocations : MainStep(i)
       \/ LockExpire
       \/ \E p \in Procs : Crash(p)
    /\ UNCHANGED <<loadVars, serveVars, fsVars>>

SpecLock == LockInit /\ [][LockNext]_vars

(***************************************************************************)
(* The lock when time passes and live processes go on                      *)
(***************************************************************************)

\* the invocations that are triggered in this specification
Contenders == {1, 2}

\* a step of main() in a live process
MainRuns(i) == MainBody(i) /\ UNCHANGED <<loadVars, serveVars, fsVars>>

\* the clock of the store reaches the time to live of the lock key
TtlRunsOut == LockExpire /\ UNCHANGED <<loadVars, serveVars, fsVars>>

LiveNext ==
    \/ \E i \in Contenders : Trigger(i) /\ UNCHANGED <<loadVars, serveVars, fsVars>>
    \/ \E i \in Contenders : MainRuns(i)
    \/ TtlRunsOut
    \/ \E p \in Procs : Crash(p) /\ UNCHANGED <<loadVars, serveVars, fsVars>>

\* a pending await of a live process settles, and the time to live of a key
\* runs out; a trigger and a crash may or may not happen
SpecLockLive ==
    /\ LockInit
    /\ [][LiveNext]_vars
    /\ WF_vars(TtlRunsOut)
    /\ \A i \in Contenders : WF_vars(MainRuns(i))

\* the lock is held by a process that has died
DeadHolder == lock # NoLock /\ ~alive[Owner(lock)]

\* C25: a lock key that exists has a finite time to live; a lock whose holder
\* has died is eventually gone; and when main() has been triggered in a live
\* process while the lock is free, some invocation eventually acquires the
\* lock and enters the pipeline.
C25_NeverBlockedForever ==
    /\ [](lock # NoLock => lockTtl > 0)
    /\ (DeadHolder ~> lock = NoLock)
    /\ \A i \in Contenders :
          (inv[i].pc = "acq_get" /\ alive[ProcOf(i)] /\ lock = NoLock)
              ~> (\E j \in Contenders : inv[j].pc = "get_value")

\* C25 witness: an invocation has acquired the lock, on another host than that
\* of the holder of the earlier lock, which died without releasing it
C25_Witness ==
    /\ ~alive[1]
    /\ inv[1].pc \in {"get_value", "starting", "download", "process", "load"}
    /\ hostOf[2] # hostOf[1]
    /\ inv[2].pc = "get_value"
    /\ lock = LockText(PidOf(2), 1)


\* C6: two invocations are never in the download/process/load stages at once.
C6_MutualExclusion ==
    \A i, j \in Invocations : (InPipeline(i) /\ InPipeline(j)) => i = j

\* C9: the lock is deleted by the stale-lock branch of acquireLock only when
\* the process that recorded it is dead and ran on the host of the caller; the
\* lock of a live holder or of a holder on another host is never deleted.
C9_DeleteOnlyDeadSameHost ==
    [][\A i \in Invocations :
          (inv[i].pc = "acq_del" /\ inv'[i].pc = "acq_set" /\ lock # NoLock) =>
              (~alive[Owner(lock)] /\ hostOf[Owner(lock)] = hostOf[ProcOf(i)])]_vars

\* C10: an invocation whose acquireLock found the lock present does not
\* acquire it while another invocation is executing the pipeline; it ends
\* without running any stage.
C10_NoAcquireWhileRunning ==
    [][\A i \in Invocations :
          (inv[i].existingLock # NoLock /\ \E j \in Invocations : j # i /\ InPipeline(j)) =>
              inv'[i].pc # "get_value"]_vars

(***************************************************************************)
(* Two invocations of main() started together against a free lock          *)
(***************************************************************************)

RaceInit ==
    /\ LoadIdle
    /\ ServeIdle
    /\ lock = NoLock
    /\ lockTtl = 0
    /\ api = [op |-> "none"]
    /\ status = "none"
    /\ now = 0
    /\ alive = [p \in Procs |-> TRUE]
    /\ hostOf \in {h \in [Procs -> Hosts] : h[1] = "h1"}
    /\ inv = [i \in Invocations |->
                IF i \in {1, 2} THEN [IdleInvocation EXCEPT !.pc = "acq_get"]
                ELSE IdleInvocation]
    /\ FsIdle

RaceNext ==
    /\ \E i \in Invocations : MainBody(i)
    /\ UNCHANGED <<loadVars, serveVars, fsVars>>

SpecRace == RaceInit /\ [][RaceNext]_vars

\* C7: when both invocations have ended and no stage of the pipeline threw,
\* neither has ended as failed: one returned 'success' and the other
\* 'skipped', or the later one found the lock released again and both
\* returned 'success' one after the other.
C7_OneSuccessOneSkipped ==
    (inv[1].pc = "done" /\ inv[2].pc = "done"
        /\ inv[1].error # "stage" /\ inv[2].error # "stage") =>
    {inv[1].result, inv[2].result} \in {{"success", "skipped"}, {"success"}}

(***************************************************************************)
(* launch.main in one process, stage by stage, with the files it handles   *)
(***************************************************************************)

\* one line of a staging file: the row, and the plugin that wrote it
Line(p, a, b, name) == [src |-> p, row |-> Row(a, b, name)]

\* what a plugin writes to its staging file when its load() goes through
PluginLines(p) ==
    IF p = "firehol" THEN << Line(p, 0, MaxCoord, "a") >>
    ELSE << Line(p, 0, 0, "g"), Line(p, 1, 1, "g") >>

\* how the wrapper's load() of a plugin can settle: fulfilled with a complete
\* file, fulfilled with an empty file (validate() returns false, which the
\* wrapper ignores), rejected before the staging file was touched, rejected
\* after part of the file was written
Outcomes == {"ok", "empty", "reject_before", "reject_partial"}
Rejected(o) == o \in {"reject_before", "reject_partial"}

\* the staging file of plugin p after its load() settled with outcome o
Staged(p, o, old) ==
    CASE o = "ok" -> File(PluginLines(p))
      [] o = "empty" -> File(<< >>)
      [] o = "reject_before" -> old
      [] o = "reject_partial" -> File(SubSeq(PluginLines(p), 1, Len(PluginLines(p)) - 1))

\* main: header, then every file of the staging directory appended in
\* readdirSync order
Concat ==
    File((IF staging["firehol"].exists THEN staging["firehol"].lines ELSE << >>)
         \o (IF staging["spamhaus"].exists THEN staging["spamhaus"].lines ELSE << >>))

\* validateCsvFile: line.split('|') of a data line
LineParts(line) == IF line.row.list.name \in PipeNames THEN 4 ELSE 3

\* validateCsvFile(file): the file exists, has its header and a data row, and
\* each of the data lines among its first ten lines splits into three parts
validateCsvFile(f) ==
    /\ f.exists
    /\ Len(f.lines) >= 1
    /\ \A n \in 1..Len(f.lines) : n <= CheckedLines => LineParts(f.lines[n]) = 3

\* the rows the csv parser of the loader reads from a merged file
RowsOf(f) == [n \in 1..Len(f.lines) |-> f.lines[n].row]

\* a cron tick or the startup call in a process that runs no update
RunStart(i) ==
    /\ inv[i].pc \in {"idle", "done"}
    /\ alive[ProcOf(i)]
    /\ runs < MaxRuns
    /\ runs' = runs + 1
    /\ inv' = [inv EXCEPT ![i] = [IdleInvocation EXCEPT !.pc = "acq_get"]]
    /\ hist' = [hist EXCEPT !.start = [csv |-> csvFile, ranges |-> ranges, backup |-> backup],
                            !.stages = {}, !.merged = NoFile]
    /\ UNCHANGED <<lock, lockTtl, api, status, now, alive, hostOf>>
    /\ UNCHANGED <<staging, tempCsvFile, csvFile, backup, results>>
    /\ UNCHANGED <<loadVars, serveVars, plugVars, args>>

\* main: status 'downloading', the 10 minute timer is set, plugins.map(p => p.load())
DownloadStart(i) ==
    /\ inv[i].pc = "download"
    /\ alive[ProcOf(i)]
    /\ args["download"]
    /\ status' = "in_progress"
    /\ results' = [p \in Plugins |-> "pending"]
    /\ hist' = [hist EXCEPT !.stages = @ \cup {"download"}]
    /\ inv' = [inv EXCEPT ![i].pc = "downloading",
                           ![i].log = @ \o << "in_progress downloading", "download" >>]
    /\ UNCHANGED <<lock, lockTtl, api, now, alive, hostOf>>
    /\ UNCHANGED <<staging, tempCsvFile, csvFile, backup, runs>>
    /\ UNCHANGED <<loadVars, serveVars, plugVars, args>>

\* variant of DownloadSettled that goes on to the merge whatever the plugins did
DownloadSettled_NoAbort(i) ==
    /\ inv[i].pc = "downloading"
    /\ alive[ProcOf(i)]
    /\ \E o \in [Plugins -> Outcomes] :
          /\ staging' = [p \in Plugins |-> Staged(p, o[p], staging[p])]
          /\ results' = o
          /\ inv' = IF \E p \in Plugins : Rejected(o[p]) /\ abortOnFail[p]
                    THEN [inv EXCEPT ![i].pc = "process", ![i].error = "abort"]
                    ELSE [inv EXCEPT ![i].pc = "process"]
    /\ UNCHANGED <<lock, lockTtl, api, status, now, alive, hostOf>>
    /\ UNCHANGED <<tempCsvFile, csvFile, backup, runs, hist>>
    /\ UNCHANGED <<loadVars, serveVars, plugVars, args>>

\* main: Promise.allSettled(...) has settled, the timer is cleared, and a
\* rejected plugin with abortOnFail makes main throw
DownloadSettled(i) ==
    /\ inv[i].pc = "downloading"
    /\ alive[ProcOf(i)]
    /\ \E o \in [Plugins -> Outcomes] :
          /\ staging' = [p \in Plugins |-> Staged(p, o[p], staging[p])]
          /\ results' = o
          /\ inv' = IF \E p \in Plugins : Rejected(o[p]) /\ abortOnFail[p]
                    THEN [inv EXCEPT ![i].pc = "st_failed", ![i].error = "abort"]
                    ELSE [inv EXCEPT ![i].pc = "process"]
    /\ UNCHANGED <<lock, lockTtl, api, status, now, alive, hostOf>>
    /\ UNCHANGED <<tempCsvFile, csvFile, backup, runs, hist>>
    /\ UNCHANGED <<loadVars, serveVars, plugVars, args>>

\* the timer fires before the plugins have settled: its callback throws
\* outside of any try block or promise, and the process ends on the uncaught
\* exception
DownloadTimeout(i) ==
    /\ inv[i].pc = "downloading"
    /\ alive[ProcOf(i)]
    /\ alive' = [alive EXCEPT ![ProcOf(i)] = FALSE]
    /\ inv' = [inv EXCEPT ![i].error = "timeout"]
    /\ UNCHANGED <<lock, lockTtl, api, status, now, hostOf>>
    /\ UNCHANGED fsVars
    /\ UNCHANGED <<loadVars, serveVars>>

\* variant of Merge that writes the merged file before it reports the stage
Merge_WorkFirst(i) ==
    /\ inv[i].pc = "process"
    /\ alive[ProcOf(i)]
    /\ args["process"]
    /\ status' = "in_progress"
    /\ tempCsvFile' = Concat
    /\ hist' = [hist EXCEPT !.stages = @ \cup {"process"}, !.merged = Concat]
    /\ inv' = [inv EXCEPT ![i].pc = "validate",
                           ![i].log = @ \o << "merge", "in_progress processing" >>]
    /\ UNCHANGED <<lock, lockTtl, api, now, alive, hostOf>>
    /\ UNCHANGED <<staging, csvFile, backup, results, runs>>
    /\ UNCHANGED <<loadVars, serveVars, plugVars, args>>

\* main: status 'processing', tempCsvFile written from the staging directory
Merge(i) ==
    /\ inv[i].pc = "process"
    /\ alive[ProcOf(i)]
    /\ args["process"]
    /\ status' = "in_progress"
    /\ tempCsvFile' = Concat
    /\ hist' = [hist EXCEPT !.stages = @ \cup {"process"}, !.merged = Concat]
    /\ inv' = [inv EXCEPT ![i].pc = "validate",
                           ![i].log = @ \o << "in_progress processing", "merge" >>]
    /\ UNCHANGED <<lock, lockTtl, api, now, alive, hostOf>>
    /\ UNCHANGED <<staging, csvFile, backup, results, runs>>
    /\ UNCHANGED <<loadVars, serveVars, plugVars, args>>

\* Publish renaming the merged file into place before it validates it
Publish_RenameFirst(i) ==
    /\ inv[i].pc = "validate"
    /\ alive[ProcOf(i)]
    /\ backup' = IF csvFile.exists THEN csvFile ELSE backup
    /\ csvFile' = tempCsvFile
    /\ tempCsvFile' = NoFile
    /\ inv' = IF validateCsvFile(tempCsvFile)
              THEN [inv EXCEPT ![i].pc = "load", ![i].log = @ \o << "rename", "validate" >>]
              ELSE [inv EXCEPT ![i].pc = "st_failed", ![i].error = "validation"]
    /\ UNCHANGED <<lock, lockTtl, api, status, now, alive, hostOf>>
    /\ UNCHANGED <<staging, results, runs, hist>>
    /\ UNCHANGED <<loadVars, serveVars, plugVars, args>>

\* main: validateCsvFile(tempCsvFile), then csvFile -> csvFile.backup and
\* tempCsvFile -> csvFile, or throw new Error('CSV validation failed')
Publish(i) ==
    /\ inv[i].pc = "validate"
    /\ alive[ProcOf(i)]
    /\ IF validateCsvFile(tempCsvFile)
       THEN /\ backup' = IF csvFile.exists THEN csvFile ELSE backup
            /\ csvFile' = tempCsvFile
            /\ tempCsvFile' = NoFile
            /\ inv' = [inv EXCEPT ![i].pc = "load", ![i].log = @ \o << "validate", "rename" >>]
       ELSE /\ UNCHANGED <<backup, csvFile, tempCsvFile>>
            /\ inv' = [inv EXCEPT ![i].pc = "st_failed", ![i].error = "validation"]
    /\ UNCHANGED <<lock, lockTtl, api, status, now, alive, hostOf>>
    /\ UNCHANGED <<staging, results, runs, hist>>
    /\ UNCHANGED <<loadVars, serveVars, plugVars, args>>

\* main: status 'loading', load(csvFile, redisPrefix, collectGarbage) is called
LoadBegin(i) ==
    /\ inv[i].pc = "load"
    /\ alive[ProcOf(i)]
    /\ args["load"]
    /\ lpc \in {"idle", "done", "failed"}
    /\ status' = "in_progress"
    /\ file' = RowsOf(csvFile)
    /\ loads' = loads + 1
    /\ lpc' = "start"
    /\ hist' = [hist EXCEPT !.stages = @ \cup {"load"}]
    /\ inv' = [inv EXCEPT ![i].pc = "loading",
                           ![i].log = @ \o << "in_progress loading", "load" >>]
    /\ UNCHANGED <<lock, lockTtl, api, now, alive, hostOf>>
    /\ UNCHANGED <<staging, tempCsvFile, csvFile, backup, results, runs>>
    /\ UNCHANGED <<rows, scratch, k, s, pipeline, tempKey, ranges, tempKeySize, versions, ipListSize,
                   faults, fault, atStart>>
    /\ UNCHANGED <<serveVars, plugVars, args>>

\* the loader works while main awaits its promise
Loading(i) ==
    /\ inv[i].pc = "loading"
    /\ alive[ProcOf(i)]
    /\ IF lpc = "reading" /\ ~csvFile.exists THEN OnReadError ELSE LoadNext \/ OnParseError
    /\ UNCHANGED <<lockVars, fsVars, serveVars>>

\* the promise of load() settles: main goes on, or throws what load rejected with
LoadEnd(i) ==
    /\ inv[i].pc = "loading"
    /\ alive[ProcOf(i)]
    /\ lpc \in {"done", "failed"}
    /\ inv' = IF lpc = "done" THEN [inv EXCEPT ![i].pc = "completed"]
              ELSE [inv EXCEPT ![i].pc = "st_failed", ![i].error = "load"]
    /\ UNCHANGED <<lock, lockTtl, api, status, now, alive, hostOf>>
    /\ UNCHANGED <<fsVars, loadVars, serveVars>>

\* main: the lock is released and 'success' returned; what this run leaves is
\* what the last successful run has produced
ReleaseOk(i) ==
    /\ Release(i)
    /\ hist' = [hist EXCEPT !.good = [csv |-> csvFile, ranges |-> ranges]]
    /\ UNCHANGED <<staging, tempCsvFile, csvFile, backup, results, runs>>
    /\ UNCHANGED <<loadVars, serveVars, plugVars, args>>

\* main, catch: the lock is released, tempCsvFile is unlinked when it exists,
\* the error is thrown again
ReleaseFailed(i) ==
    /\ ReleaseErr(i)
    /\ tempCsvFile' = NoFile
    /\ UNCHANGED <<staging, csvFile, backup, results, runs, hist>>
    /\ UNCHANGED <<loadVars, serveVars, plugVars, args>>

UpdateStep(i) ==
    \/ RunStart(i)
    \/ (AcqGet(i) \/ AcqSet(i) \/ GetValue(i) \/ Starting(i) \/ Completed(i) \/ StFailed(i))
          /\ UNCHANGED <<loadVars, serveVars, fsVars>>
    \/ DownloadStart(i) \/ DownloadSettled(i) \/ DownloadTimeout(i)
    \/ Merge(i) \/ Publish(i)
    \/ LoadBegin(i) \/ Loading(i) \/ LoadEnd(i)
    \/ ReleaseOk(i) \/ ReleaseFailed(i)

UpdateInit == FaultInit

UpdateNext == UpdateStep(1)

SpecUpdate == UpdateInit /\ [][UpdateNext]_vars

\* the run of invocation i is over: main has returned or thrown, or its process has died
Ended(i) == inv[i].pc = "done" \/ ~alive[ProcOf(i)]

\* the errors of a run that had acquired the lock
PipelineErrors == {"abort", "validation", "load", "timeout"}

\* C12: when a run has ended as failed, the live index key and the live merged
\* CSV file are those the last successful run produced.
C12_LastGoodStaysLive ==
    (inv[1].pc = "done" /\ inv[1].result = "failed") =>
        (csvFile = hist.good.csv /\ ranges = hist.good.ranges)

\* C13: when a run that acquired the lock and failed in the pipeline has
\* ended, the temporary CSV file does not exist, the temporary index key does
\* not exist, the status key holds 'failed', and the lock is not held by the run.
C13_FailureCleansUp ==
    (Ended(1) /\ inv[1].error \in PipelineErrors) =>
        /\ tempCsvFile = NoFile
        /\ tempKey = {}
        /\ status = "failed"
        /\ lock # inv[1].lockValue

\* C23: a run whose merged file failed validation ends with the live CSV and
\* the backup as they were when it started and without temporary file; a step
\* that changes the live CSV puts the validated temporary file there and makes
\* the previous live CSV, when there was one, the backup; and the live CSV
\* path never holds a file that fails validation.
C23_ValidatedPublish ==
    /\ [](/\ (inv[1].pc = "done" /\ inv[1].error = "validation") =>
                /\ csvFile = hist.start.csv
                /\ backup = hist.start.backup
                /\ tempCsvFile = NoFile
          /\ csvFile.exists => validateCsvFile(csvFile))
    /\ [][csvFile' # csvFile =>
            /\ validateCsvFile(tempCsvFile)
            /\ csvFile' = tempCsvFile
            /\ tempCsvFile' = NoFile
            /\ backup' = IF csvFile.exists THEN csvFile ELSE backup]_vars

\* C23 witness: a run merged a file that failed validation while the CSV of an
\* earlier run was live
C23_Witness ==
    /\ inv[1].pc = "done"
    /\ inv[1].error = "validation"
    /\ csvFile.exists
    /\ hist.merged.exists

\* what lookups of the valid IPs compute from an index
IndexAnswers(zset) ==
    [q \in Coords |->
        LET found == ZRangeByScore(zset, toLong(q))
        IN IF found = {} THEN {LookupResult({}, toLong(q))}
           ELSE {LookupResult({x}, toLong(q)) : x \in found}]

C15_FailedPluginOmitted ==
    \A p \in Plugins :
        (~abortOnFail[p] /\ results[p] \in {"reject_before", "reject_partial", "empty"}) =>
            /\ inv[1].error # "abort" => inv[1].pc # "st_failed" \/ "process" \in hist.stages
            /\ hist.merged.exists =>
                  \A n \in 1..Len(hist.merged.lines) : hist.merged.lines[n].src # p

\* C16: when the 10 minute timer has fired before the plugins settled, the run
\* fails in the ordinary way: the process lives, main is in its catch block or
\* has thrown with status 'failed' and the lock released, and neither the merge
\* nor the load stage runs.
C16_TimeoutFailsRun ==
    inv[1].error = "timeout" =>
        /\ alive[ProcOf(1)]
        /\ inv[1].pc \in {"st_failed", "release_err", "done"}
        /\ inv[1].pc = "done" =>
              (inv[1].result = "failed" /\ status = "failed" /\ lock # inv[1].lockValue)
        /\ hist.stages \cap {"process", "load"} = {}

\* C18: a run whose merged input holds no interval ends as a success with an
\* empty live index, from which every lookup of a valid IP computes NotFound.
C18_EmptyInputEmptiesIndex ==
    (inv[1].pc = "done" /\ hist.merged.exists /\ hist.merged.lines = << >>) =>
        /\ inv[1].result = "success"
        /\ ranges = {}
        /\ \A q \in Coords : IndexAnswers(ranges)[q] = {[kind |-> "null"]}

(***************************************************************************)
(* Direct calls of updateLock.releaseLock and updateLock.extendLock        *)
(***************************************************************************)

\* the lock texts of the model, and the arguments a caller can pass: a text,
\* a text with blanks around it, or nothing
LockTexts == {LockText(pid, ts) : pid \in 1..2, ts \in 0..1}
LockArgs == {NoLock} \cup LockTexts \cup {[x EXCEPT !.ws = TRUE] : x \in LockTexts}
TtlArgs == {60, 120}

\* acquireLock by a process when the key is free: SET lockKey value EX ttl NX
ApiAcquire(text, ttlSeconds) ==
    /\ lock = NoLock
    /\ lock' = text
    /\ lockTtl' = ttlSeconds
    /\ api' = [op |-> "acquire", arg |-> text, before |-> lock, ttlBefore |-> lockTtl,
               ret |-> TRUE]

\* releaseLock(lockKey, lockValue)
ApiRelease(lockValue) ==
    /\ lock' = ReleaseLockStore(lock, lockValue)
    /\ lockTtl' = IF lock' = NoLock THEN 0 ELSE lockTtl
    /\ api' = [op |-> "release", arg |-> lockValue, before |-> lock, ttlBefore |-> lockTtl,
               ret |-> ReleaseLockReturn(lock, lockValue)]

\* extendLock(lockKey, lockValue, ttlSeconds)
ApiExtend(lockValue, ttlSeconds) ==
    /\ lock' = lock
    /\ lockTtl' = ExtendScript(lock, lockTtl, lockValue, ttlSeconds)
    /\ api' = [op |-> "extend", arg |-> lockValue, before |-> lock, ttlBefore |-> lockTtl,
               ret |-> ExtendLockReturn(lock, lockValue)]

ApiInit ==
    /\ LoadIdle
    /\ ServeIdle
    /\ LockIdle

ApiNext ==
    /\ \/ \E text \in LockTexts, ttl \in TtlArgs : ApiAcquire(text, ttl)
       \/ \E v \in LockArgs : ApiRelease(v)
       \/ \E v \in LockArgs, ttl \in TtlArgs : ApiExtend(v, ttl)
    /\ UNCHANGED <<loadVars, serveVars, fsVars, status, now, alive, hostOf, inv>>

SpecLockApi == ApiInit /\ [][ApiNext]_vars

\* the call deleted the lock key
Deleted == api.before # NoLock /\ lock = NoLock

\* C8 as stated: releaseLock deletes the key exactly when its value equals the
\* argument and returns true exactly then, otherwise leaves key and value
\* alone; extendLock compares in the same way and never changes the value.
C8_ReleaseIffEqual ==
    /\ api.op = "release" =>
          /\ Deleted <=> (api.before # NoLock /\ api.before = api.arg)
          /\ api.ret <=> Deleted
          /\ ~Deleted => lock = api.before
    /\ api.op = "extend" =>
          /\ lock = api.before
          /\ api.ret <=> (api.before # NoLock /\ api.before = api.arg)

\* two texts are the same once the blanks around them are dropped
SameTrimmed(x, y) == x # NoLock /\ y # NoLock /\ x.pid = y.pid /\ x.ts = y.ts

\* C8 amended: releaseLock deletes the key exactly when its value equals the
\* argument with surrounding blanks trimmed, and returns true exactly then,
\* otherwise leaves key, value and time to live alone; extendLock compares the
\* argument as given, changes the time to live exactly when it returns true
\* and never changes the value.
C8_ReleaseIffEqualTrimmed ==
    /\ api.op = "release" =>
          /\ Deleted <=> (SameTrimmed(api.before, api.arg) /\ ~api.before.ws)
          /\ api.ret <=> Deleted
          /\ ~Deleted => (lock = api.before /\ lockTtl = api.ttlBefore)
    /\ api.op = "extend" =>
          /\ lock = api.before
          /\ api.ret <=> (api.before # NoLock /\ api.before = api.arg)
          /\ ~api.ret => lockTtl = api.ttlBefore

\* C8 witness: a release with a blank-padded argument deleted the lock, and so
\* did not leave a key whose value differs from the argument
C8_Witness ==
    /\ api.op = "release"
    /\ api.ret
    /\ Deleted
    /\ api.arg.ws

\* what a lookup of q in the index zset has to answer
Expected(zset, q) ==
    IF \E r \in Members(zset) : r.start <= q /\ q <= r.end
    THEN [kind |-> "found",
          data |-> (CHOOSE r \in Members(zset) : r.start <= q /\ q <= r.end).data]
    ELSE [kind |-> "null"]

\* the tags a payload lists under a type
PayloadList(data, ty) == IF ty \in DOMAIN data THEN data[ty] ELSE << >>

TagTypes == {tag.type : tag \in Tags}

\* two lookup answers agree: both NotFound, or payloads with the same tags under every type
SameAnswer(r1, r2) ==
    /\ r1.kind = r2.kind
    /\ r1.kind = "found" =>
          \A ty \in TagTypes : PayloadList(r1.data, ty) = PayloadList(r2.data, ty)

\* C4: a finished lookup of a valid IP, during which the live key was not
\* replaced, returned the payload of the live record containing the IP, or
\* NotFound when there is none.
C4_LookupExact ==
    (lk.pc = "returned" /\ isValidIpv4(lk.ip) /\ lk.at = Len(versions)) =>
        SameAnswer(lk.result, Expected(ranges, toLong(lk.ip)))

Probe == (0 - 1)..(MaxCoord + 2)

\* the tags of the input rows whose interval contains x
InputTagsAt(x) ==
    {rows[i].list : i \in {j \in 1..Len(rows) : rows[j].start_int <= x /\ x <= rows[j].end_int}}

\* the records the loader has queued or written in this load
Written ==
    Members(tempKey) \cup {pipeline[i].member : i \in 1..Len(pipeline)}
        \cup (IF lpc \in {"verify", "deltemp", "done"} THEN Members(ranges) ELSE {})

\* the written records whose interval contains x
RecordsAt(x) == {r \in Written : r.start <= x /\ x <= r.end}

SeqRange(arr) == {arr[i] : i \in 1..Len(arr)}

NoRepeat(arr) == \A i, j \in 1..Len(arr) : arr[i] = arr[j] => i = j

\* C1: once the loader has written its records, a coordinate is covered by
\* some written record exactly when it is covered by some input interval.
C1_UnionPreserved ==
    lpc \in {"written", "done"} =>
        \A x \in Probe : (RecordsAt(x) # {}) <=> (InputTagsAt(x) # {})

\* C2: the records written to the index are closed intervals (start <= end)
\* and no coordinate lies in two of them.
C2_Disjoint ==
    \A r1, r2 \in Written \cup Members(ranges) :
        /\ r1.start <= r1.end
        /\ r1 # r2 => (r1.end < r2.start \/ r2.end < r1.start)

\* C2 witness: overlapping inputs were flattened into at least two written records
C2_Witness ==
    /\ lpc = "done"
    /\ Cardinality(Members(ranges)) >= 2
    /\ \E i, j \in 1..Len(rows) :
        i # j /\ rows[i].start_int <= rows[j].start_int /\ rows[j].start_int <= rows[i].end_int

\* C3: for every written record and every coordinate x in it, the payload
\* holds, per type, exactly the type-stripped input tags of that type whose
\* interval contains x, each once.
C3_PayloadExact ==
    lpc \in {"written", "done"} =>
        \A r \in Written : \A x \in r.start..r.end :
            \A ty \in TagTypes :
                /\ SeqRange(PayloadList(r.data, ty)) =
                       {StripType(tag) : tag \in {u \in InputTagsAt(x) : u.type = ty}}
                /\ NoRepeat(PayloadList(r.data, ty))

(***************************************************************************)
(* Two intervals that share an endpoint                                    *)
(***************************************************************************)

\* the files of two rows [a, b] and [b, c] with a < b < c, in either order
CoincideFiles ==
    { << [start_int |-> a, end_int |-> b, list |-> t1],
         [start_int |-> b, end_int |-> c, list |-> t2] >> :
        <<a, b, c, t1, t2>> \in
            {x \in (0..MaxEnd) \X (0..MaxEnd) \X (0..MaxEnd) \X Tags \X Tags :
                x[1] < x[2] /\ x[2] < x[3]} }
    \cup
    { << [start_int |-> b, end_int |-> c, list |-> t2],
         [start_int |-> a, end_int |-> b, list |-> t1] >> :
        <<a, b, c, t1, t2>> \in
            {x \in (0..MaxEnd) \X (0..MaxEnd) \X (0..MaxEnd) \X Tags \X Tags :
                x[1] < x[2] /\ x[2] < x[3]} }

\* one load, into an empty store, of such a file or of a file without rows
CoincideInit ==
    /\ file \in CoincideFiles \cup {<< >>}
    /\ rows = << >>
    /\ scratch = << >>
    /\ k = 0
    /\ s = << >>
    /\ pipeline = << >>
    /\ tempKey = {}
    /\ ranges = {}
    /\ tempKeySize = 0
    /\ lpc = "start"
    /\ loads = 1
    /\ ipListSize = << >>
    /\ versions = << {} >>
    /\ faults = FALSE
    /\ fault = "none"
    /\ atStart = {}
    /\ ServeIdle
    /\ LockIdle

SpecCoincide == CoincideInit /\ [][FlatNext]_vars

\* the index holds a record [n, m] whose payload is the set of tags given
HoldsRecord(zset, n, m, tagset) ==
    \E r \in Members(zset) :
        /\ r.start = n
        /\ r.end = m
        /\ \A ty \in TagTypes :
              SeqRange(PayloadList(r.data, ty)) =
                  {StripType(tag) : tag \in {u \in tagset : u.type = ty}}

\* C17: the load of [a, b] tagged T1 and [b, c] tagged T2, a < b < c, leaves
\* exactly the records [a, b-1: {T1}], [b, b: {T1, T2}], [b+1, c: {T2}].
C17_CoincidentEndpoints ==
    lpc = "done" =>
        LET lo == IF file[1].start_int < file[2].start_int THEN file[1] ELSE file[2]
            hi == IF file[1].start_int < file[2].start_int THEN file[2] ELSE file[1]
        IN /\ Cardinality(Members(ranges)) = 3
           /\ HoldsRecord(ranges, lo.start_int, lo.end_int - 1, {lo.list})
           /\ HoldsRecord(ranges, lo.end_int, lo.end_int, {lo.list, hi.list})
           /\ HoldsRecord(ranges, hi.start_int + 1, hi.end_int, {hi.list})

\* C19: the lookup engine's parse of every member the loader has written
\* yields the start, the end and the payload the loader serialized.
C19_MemberRoundTrip ==
    \A x \in tempKey \cup ranges :
        LET item == SplitMember(x.member)
        IN /\ item.startInt = x.member.start
           /\ item.endInt = x.member.end
           /\ ~item.lists.cut
           /\ item.lists.data = x.member.data

(***************************************************************************)
(* The cache over time: lookups with and without DroneBL, loads, and the   *)
(* clock of the store                                                      *)
(***************************************************************************)

\* the period of time told apart: half a time to live
Elapse == {cacheTTL \div 2}

\* time passes between two lookups; a lookup itself takes no time at this scale
Tick ==
    /\ lk.pc \in {"idle", "returned"}
    /\ \E d \in Elapse :
          /\ clock + d <= MaxTicks * (cacheTTL \div 2)
          /\ clock' = clock + d
    /\ UNCHANGED <<cache, lk, routeVars>>

\* the address the clients of this specification ask about
Asked == {0}

\* the store holds no index and no cache entry, and a load is about to start:
\* of a file that lists every address, or of a file without rows
CacheInit ==
    /\ file \in {<< Row(0, MaxCoord, "a") >>, << >>}
    /\ rows = << >>
    /\ scratch = << >>
    /\ k = 0
    /\ s = << >>
    /\ pipeline = << >>
    /\ tempKey = {}
    /\ ranges = {}
    /\ tempKeySize = 0
    /\ lpc = "start"
    /\ loads = 1
    /\ ipListSize = << >>
    /\ versions = << {} >>
    /\ faults = FALSE
    /\ fault = "none"
    /\ atStart = {}
    /\ ServeIdle
    /\ LockIdle

CacheNext ==
    \/ LoadNext /\ UNCHANGED <<serveVars, lockVars, fsVars>>
    \/ /\ \/ \E ip \in Asked : \E includeDroneBL \in BOOLEAN : LookupCall(ip, includeDroneBL)
          \/ CacheGet \/ Query \/ CacheSet
          \/ \E key \in CacheKeys : CacheExpire(key)
          \/ Tick
       /\ UNCHANGED <<loadVars, lockVars, fsVars>>

SpecCache == CacheInit /\ [][CacheNext]_vars

\* a step of the loader
LoaderStep == lpc' # lpc \/ ranges' # ranges \/ tempKey' # tempKey \/ k' # k \/ rows' # rows

\* C20: every cache entry expires 48 hours after the lookup that computed its
\* value, and a lookup answered from the cache returns a value computed less
\* than 48 hours before; an entry is written only by the lookup in progress,
\* under the key of its address and its DroneBL flag; and no step of the
\* loader changes the cache.
C20_CacheEntries ==
    /\ [](/\ \A key \in CacheKeys :
                cache[key] # NoEntry => cache[key].exp = cache[key].at + cacheTTL
          /\ (lk.pc = "returned" /\ lk.hit) => (lk.age >= 0 /\ lk.age <= cacheTTL))
    /\ [][/\ \A key \in CacheKeys :
                (cache'[key] # cache[key] /\ cache'[key] # NoEntry) =>
                    (lk.pc = "cacheSet" /\ key = cacheKey(lk.ip, lk.dronebl))
          /\ LoaderStep => cache' = cache]_vars

\* a lookup was answered from the cache with a value computed earlier, from
\* contents of the live key that have been replaced since and answer otherwise
C20_Witness ==
    /\ lk.pc = "returned"
    /\ isValidIpv4(lk.ip)
    /\ lk.hit
    /\ ~lk.dronebl
    /\ lk.age >= cacheTTL \div 2
    /\ lk.ver < Len(versions)
    /\ ~SameAnswer(lk.result, Expected(ranges, toLong(lk.ip)))

(***************************************************************************)
(* The HTTP routes over lookupIP                                           *)
(***************************************************************************)

\* router.get('/:ip'): the response to the value lookupIP returned or threw,
\* without the csv option
GetIp(ipLists) ==
    IF ipLists.kind = "invalid" THEN [status |-> 422, body |-> [error |-> "invalid ipv4"]]
    ELSE IF ipLists.kind = "null" THEN [status |-> 404, body |-> [error |-> "IP not found"]]
    ELSE IF ipLists.kind = "error" THEN [status |-> 500, body |-> [error |-> "Internal server error"]]
    ELSE [status |-> 200, body |-> ipLists.data]

\* C21: GET /:ip answers a string that is not a dotted quad with 422; and when
\* the live key was not replaced during the lookup, it answers a valid address
\* contained in no live record with 404 and a valid address contained in a live
\* record with 200 and the payload of that record.
C21_StatusCodes ==
    (lk.pc = "returned" /\ lk.at = Len(versions)) =>
        LET res == GetIp(lk.result)
            live == Expected(ranges, toLong(lk.ip))
        IN IF ~isValidIpv4(lk.ip) THEN res.status = 422
           ELSE IF live.kind = "null" THEN res.status = 404
           ELSE /\ res.status = 200
                /\ SameAnswer([kind |-> "found", data |-> res.body], live)

(***************************************************************************)
(* Batch lookups: router.post('/') and the 'batch' message of a WebSocket  *)
(***************************************************************************)

\* the arrays sent: a valid and an invalid string, one address twice, two
\* addresses, and the empty array
Batches == { << 0, 0 - 1 >>, << 0, 0 >>, << 0, MaxCoord >>, << >> }

\* the ways a batch arrives
Vias == {"http", "ws"}

\* the value stored under the key of one input string:
\* response[ip] = (list === null) ? [] : list                  (router.post)
\* results[ip] = result === null ? {} : result, or {error}     (handleBatch)
BatchValue(via, list) ==
    IF list.kind = "null" THEN [kind |-> IF via = "http" THEN "array" ELSE "object"]
    ELSE IF list.kind = "invalid" THEN [kind |-> "false"]
    ELSE IF list.kind = "error" THEN [kind |-> "error"]
    ELSE [kind |-> "payload", data |-> list.data]

\* the request arrives: an empty array is answered with an error at once
BatchStart(via, ips) ==
    /\ post.pc \in {"idle", "sent"}
    /\ lk.pc \in {"idle", "returned"}
    /\ post' = [pc |-> IF Len(ips) = 0 THEN "sent" ELSE "running",
                via |-> via, ips |-> ips, i |-> 1, at |-> Len(versions),
                results |-> << >>,
                reply |-> IF Len(ips) = 0 THEN "error" ELSE "none"]
    /\ lk' = [pc |-> "idle"]
    /\ UNCHANGED <<cache, clock, wsVars, admin>>

\* ips.map(async ip => lookupIP(ip)): the lookups of a batch are taken in the
\* order of the array
BatchCall ==
    /\ post.pc = "running"
    /\ lk.pc = "idle"
    /\ LookupCall(post.ips[post.i], FALSE)

\* a lookup of the batch has settled: its value is stored under its input
\* string; router.post answers 500 when a lookup throws (Promise.all rejects),
\* handleBatch stores the error under the key; after the last lookup the
\* mapping is sent
BatchCollect ==
    /\ post.pc = "running"
    /\ lk.pc = "returned"
    /\ LET ip == post.ips[post.i]
           value == BatchValue(post.via, lk.result)
           mapping == [x \in DOMAIN post.results \cup {ip} |->
                          IF x = ip THEN value ELSE post.results[x]]
       IN post' = IF post.via = "http" /\ lk.result.kind = "error"
                  THEN [post EXCEPT !.pc = "sent", !.reply = "error"]
                  ELSE IF post.i = Len(post.ips)
                  THEN [post EXCEPT !.pc = "sent", !.reply = "results", !.results = mapping]
                  ELSE [post EXCEPT !.i = @ + 1, !.results = mapping]
    /\ lk' = [pc |-> "idle"]
    /\ UNCHANGED <<cache, clock, wsVars, admin>>

\* the store holds no index, and the load of one file is about to start
BatchInit ==
    /\ file \in {<< Row(0, 0, "b|c") >>, << Row(0, MaxCoord, "a") >>, << >>}
    /\ rows = << >>
    /\ scratch = << >>
    /\ k = 0
    /\ s = << >>
    /\ pipeline = << >>
    /\ tempKey = {}
    /\ ranges = {}
    /\ tempKeySize = 0
    /\ lpc = "start"
    /\ loads = 1
    /\ ipListSize = << >>
    /\ versions = << {} >>
    /\ faults = FALSE
    /\ fault = "none"
    /\ atStart = {}
    /\ ServeIdle
    /\ LockIdle

BatchNext ==
    \/ LoadNext /\ UNCHANGED <<serveVars, lockVars, fsVars>>
    \/ /\ \/ \E via \in Vias : \E ips \in Batches : BatchStart(via, ips)
          \/ BatchCall \/ CacheGet \/ Query \/ CacheSet
          \/ BatchCollect
          \/ \E q \in Coords : CacheExpire(cacheKey(q, FALSE))
       /\ UNCHANGED <<loadVars, lockVars, fsVars>>

SpecBatch == BatchInit /\ [][BatchNext]_vars

\* the input strings of a batch
Inputs(ips) == {ips[j] : j \in 1..Len(ips)}

\* an empty value: [] or {}
EmptyValue(value) == value.kind \in {"array", "object"}

\* C22: the answer to a batch over a non-empty array is a mapping with one key
\* per distinct input string; the value of a string that is not a valid IPv4
\* or of an address no record contains is empty; and every other value is the
\* payload of the record that contained the address in one of the datasets
\* live during the request.
C22_BatchMapping ==
    (post.pc = "sent" /\ Len(post.ips) > 0) =>
        /\ post.reply = "results"
        /\ DOMAIN post.results = Inputs(post.ips)
        /\ \A ip \in Inputs(post.ips) :
              IF ~isValidIpv4(ip) THEN EmptyValue(post.results[ip])
              ELSE \E v \in post.at..Len(versions) :
                      LET live == Expected(versions[v], toLong(ip))
                      IN IF live.kind = "null" THEN EmptyValue(post.results[ip])
                         ELSE /\ post.results[ip].kind = "payload"
                              /\ SameAnswer([kind |-> "found", data |-> post.results[ip].data], live)

(***************************************************************************)
(* BasePlugin.retryWithBackoff                                             *)
(***************************************************************************)

\* the options of the calls: maxRetries, initialDelay and maxDelay in ms; the
\* defaults are 3, 1000 and 10000
RetryOptions ==
    [maxRetries : 0..MaxRetriesOption, initialDelay : {1000, 3000}, maxDelay : {10000, 5000}]

\* Math.pow(2, attempt)
RECURSIVE Pow2(_)
Pow2(n) == IF n = 0 THEN 1 ELSE 2 * Pow2(n - 1)

\* Math.min(a, b)
Min(a, b) == IF a < b THEN a ELSE b

\* Delay computed from the attempt after this one
Delay_Next(options, attempt) == Min(options.initialDelay * Pow2(attempt + 1), options.maxDelay)

\* const delay = Math.min(initialDelay * Math.pow(2, attempt), maxDelay)
Delay(options, attempt) == Min(options.initialDelay * Pow2(attempt), options.maxDelay)

\* retryWithBackoff(fn, options) is called: attempt = 0
RetryCall(options) ==
    /\ rt.pc \in {"idle", "resolved", "rejected"}
    /\ rt' = [pc |-> "call", options |-> options, attempt |-> 0,
              calls |-> << >>, waits |-> << >>, lastError |-> 0, value |-> 0]

\* return await fn(): the call number n of fn settles; its value is returned,
\* or its error n is kept and the delay before the next attempt starts, or,
\* after the last attempt, the loop ends and lastError is thrown
FnSettles ==
    /\ rt.pc = "call"
    /\ \E ok \in BOOLEAN :
        LET n == Len(rt.calls) + 1
        IN rt' = IF ok
                 THEN [rt EXCEPT !.pc = "resolved", !.calls = Append(@, "ok"), !.value = n]
                 ELSE IF rt.attempt < rt.options.maxRetries
                 THEN [rt EXCEPT !.pc = "wait", !.calls = Append(@, "error"), !.lastError = n,
                                 !.waits = Append(@, Delay(rt.options, rt.attempt))]
                 ELSE [rt EXCEPT !.pc = "rejected", !.calls = Append(@, "error"), !.lastError = n]

\* the timer of the delay fires: attempt++
DelayOver ==
    /\ rt.pc = "wait"
    /\ rt' = [rt EXCEPT !.pc = "call", !.attempt = @ + 1]

RetryNext ==
    /\ \/ \E options \in RetryOptions : RetryCall(options)
       \/ FnSettles
       \/ DelayOver
    /\ UNCHANGED <<staging, tempCsvFile, csvFile, backup, results, runs, hist, args, conv, other, vc>>
    /\ UNCHANGED <<loadVars, serveVars, lockVars>>

RetryInit == LoadIdle /\ ServeIdle /\ LockIdle

SpecRetry == RetryInit /\ [][RetryNext]_vars

\* C24: a call of retryWithBackoff calls fn at most maxRetries + 1 times and
\* never again after a call that succeeded; it resolves with the value of the
\* first successful call; the wait after the failed call number k + 1 is
\* min(initialDelay * 2^k, maxDelay) and never above maxDelay; and it rejects
\* only after maxRetries + 1 failed calls, with the error of the last one.
C24_RetryWithBackoff ==
    rt.pc # "idle" =>
        /\ Len(rt.calls) <= rt.options.maxRetries + 1
        /\ \A n \in 1..Len(rt.calls) : rt.calls[n] = "ok" => n = Len(rt.calls)
        /\ rt.pc = "resolved" =>
              (rt.calls[Len(rt.calls)] = "ok" /\ rt.value = Len(rt.calls))
        /\ \A j \in 1..Len(rt.waits) :
              /\ rt.waits[j] = (IF rt.options.initialDelay * Pow2(j - 1) < rt.options.maxDelay
                                THEN rt.options.initialDelay * Pow2(j - 1)
                                ELSE rt.options.maxDelay)
              /\ rt.waits[j] <= rt.options.maxDelay
        /\ rt.pc \in {"call", "wait"} => Len(rt.waits) = Len(rt.calls)
        /\ rt.pc = "rejected" =>
              /\ Len(rt.calls) = rt.options.maxRetries + 1
              /\ \A n \in 1..Len(rt.calls) : rt.calls[n] = "error"
              /\ rt.lastError = Len(rt.calls)

\* C24 witness: a call with the default options was rejected after the waits
\* of 1 s, 2 s and 4 s, and one whose fourth call succeeded resolved
C24_Witness ==
    /\ rt.pc \in {"rejected", "resolved"}
    /\ rt.options = [maxRetries |-> 3, initialDelay |-> 1000, maxDelay |-> 10000]
    /\ rt.waits = << 1000, 2000, 4000 >>

(***************************************************************************)
(* Lookups over cache entries that cannot be parsed                        *)
(***************************************************************************)

\* the value of a cache key is replaced, outside the service, by a text that
\* is neither 'null' nor JSON
CacheCorrupt(key) ==
    /\ cache[key] # NoEntry
    /\ cache[key].value.kind # "garbage"
    /\ cache' = [cache EXCEPT ![key].value = [kind |-> "garbage"]]
    /\ UNCHANGED <<lk, clock, routeVars>>

CorruptInit == BatchInit

CorruptNext ==
    \/ LoadNext /\ UNCHANGED <<serveVars, lockVars, fsVars>>
    \/ /\ \/ \E ip \in Asked : LookupCall(ip, FALSE)
          \/ CacheGet \/ Query \/ CacheSet
          \/ \E ip \in Asked : CacheCorrupt(cacheKey(ip, FALSE))
          \/ \E ip \in Asked : CacheExpire(cacheKey(ip, FALSE))
       /\ UNCHANGED <<loadVars, lockVars, fsVars>>

SpecCorrupt == CorruptInit /\ [][CorruptNext]_vars

\* C26: a lookup that read a cache value it cannot parse goes on to the index
\* query and returns, as a lookup that was not answered from the cache, the
\* answer of a dataset live during the lookup; the step that ends a lookup
\* after its query returns the result of the query and leaves the cache as it
\* was (the write failed) or with the cache value of that result under the key
\* of the lookup.
C26_CorruptIsMiss ==
    /\ [](/\ (lk.pc \in {"query", "cacheSet"}) => lk.seen \in {"none", "garbage"}
          /\ (lk.pc = "returned" /\ isValidIpv4(lk.ip) /\ ~lk.hit /\ lk.seen = "garbage") =>
                /\ lk.result.kind # "error"
                /\ \E v \in lk.at..Len(versions) :
                      SameAnswer(lk.result, Expected(versions[v], toLong(lk.ip))))
    /\ [][/\ (lk.pc = "cacheGet" /\ lk'.pc = "returned") =>
                cache[cacheKey(lk.ip, lk.dronebl)].value.kind # "garbage"
          /\ (lk.pc = "cacheSet" /\ lk'.pc = "returned") =>
                /\ lk'.result = lk.result
                /\ \/ cache' = cache
                   \/ cache' = [cache EXCEPT ![cacheKey(lk.ip, lk.dronebl)] =
                                   Setex(cacheTTL, CacheValue(lk.result))]]_vars

(***************************************************************************)
(* router.get('/health')                                                   *)
(***************************************************************************)

\* updateLock.isLockStale(lockKey) called by the server, a process of the
\* given host whose pid is not that of an updater
ServerSeesStale(host) ==
    IF lock = NoLock THEN FALSE
    ELSE ~isProcessRunning(host, Trim(lock).pid)

\* the body router.get('/health') sends from a server on the given host, when
\* its reads see one state of the store; reachable tells whether ping() resolves
Health(host, reachable) ==
    IF ~reachable
    THEN [status |-> "unhealthy", inProgress |-> FALSE, lockStale |-> FALSE]
    ELSE LET isLocked == lock # NoLock
             isStale == isLocked /\ ServerSeesStale(host)
         IN [status |-> IF isStale \/ status = "failed" THEN "degraded" ELSE "healthy",
             inProgress |-> isLocked /\ ~isStale,
             lockStale |-> isStale]

\* C27: on any host, /health reports 'unhealthy' exactly when the store cannot
\* be reached; and when it can, 'degraded' exactly when the holder of the lock
\* is no longer alive or the update status is 'failed', and update.inProgress
\* exactly when the lock exists and its holder is alive.
C27_Health ==
    \A host \in Hosts : \A reachable \in BOOLEAN :
        LET health == Health(host, reachable)
        IN /\ health.status = "unhealthy" <=> ~reachable
           /\ reachable =>
                /\ health.status = "degraded" <=> (DeadHolder \/ status = "failed")
                /\ health.inProgress <=> (lock # NoLock /\ ~DeadHolder)

(***************************************************************************)
(* The WebSocket server (createWebSocketServer): the per-connection rate   *)
(* limit.                                                                  *)
(***************************************************************************)

\* checkRateLimit: the entry stored under the connectionId after a message that arrives at time t;
\* the limit is exceeded when its count is above maxMessages
checkRateLimit(entry, t) ==
    LET counts == IF entry = NoCount THEN [count |-> 0, resetTime |-> t + rateLimitWindow] ELSE entry
        window == IF t > counts.resetTime
                  THEN [count |-> 0, resetTime |-> t + rateLimitWindow]
                  ELSE counts
    IN [window EXCEPT !.count = @ + 1]

\* wss.on('connection'): the connection gets its connectionId; own is the entry the connection
\* would have in a Map that no other connection touches
WsConnect(c, remoteAddress) ==
    /\ sockets[c].state = "none"
    /\ sockets' = [sockets EXCEPT ![c] = [state |-> "open",
                                          id |-> connectionId(remoteAddress, wsNow),
                                          own |-> NoCount,
                                          last |-> "none",
                                          code |-> 0]]
    /\ UNCHANGED <<messageCounts, wsNow>>
    /\ UNCHANGED <<loadVars, lockVars, fsVars, cache, lk, clock, post, admin>>

\* ws.on('message'): over the limit the message is answered with the error and the connection is
\* closed with code 1008, otherwise the message goes to its handler
WsMessage(c) ==
    /\ sockets[c].state = "open"
    /\ LET id == sockets[c].id
           counts == checkRateLimit(messageCounts[id], wsNow)
           exceeded == counts.count > maxMessages
       IN /\ messageCounts' = [messageCounts EXCEPT ![id] = counts]
          /\ sockets' = [sockets EXCEPT ![c] =
                 [@ EXCEPT !.own = checkRateLimit(sockets[c].own, wsNow),
                           !.last = IF exceeded THEN "Rate limit exceeded" ELSE "processed",
                           !.state = IF exceeded THEN "closing" ELSE "open",
                           !.code = IF exceeded THEN 1008 ELSE 0]]
    /\ UNCHANGED wsNow
    /\ UNCHANGED <<loadVars, lockVars, fsVars, cache, lk, clock, post, admin>>

\* ws.on('close'): the close the server started completes, or the client closes the connection
WsClose(c) ==
    /\ sockets[c].state \in {"open", "closing"}
    /\ messageCounts' = [messageCounts EXCEPT ![sockets[c].id] = NoCount]
    /\ sockets' = [sockets EXCEPT ![c] = [@ EXCEPT !.state = "closed",
                                                   !.code = IF @ = 0 THEN 1000 ELSE @]]
    /\ UNCHANGED wsNow
    /\ UNCHANGED <<loadVars, lockVars, fsVars, cache, lk, clock, post, admin>>

\* a millisecond passes
WsTick ==
    /\ wsNow < MaxMillis
    /\ wsNow' = wsNow + 1
    /\ UNCHANGED <<messageCounts, sockets>>
    /\ UNCHANGED <<loadVars, lockVars, fsVars, cache, lk, clock, post, admin>>

WsInit == LoadIdle /\ ServeIdle /\ LockIdle

WsNext ==
    \/ \E c \in Sockets, remoteAddress \in RemoteAddresses : WsConnect(c, remoteAddress)
    \/ \E c \in Sockets : WsMessage(c)
    \/ \E c \in Sockets : WsClose(c)
    \/ WsTick

SpecWs == WsInit /\ [][WsNext]_vars

\* the connection has sent a message, and the message was its count-th of the window it is in
Sent(c) == sockets[c].state # "none" /\ sockets[c].last # "none"

\* C28: the last message of every connection was processed when it was among the first
\* maxMessages of the connection's own window, and otherwise it was answered with the rate-limit
\* error and the connection was closed with code 1008; what the other connections sent or closed
\* does not enter the count
C28_RateLimit ==
    \A c \in Sockets :
        Sent(c) =>
            IF sockets[c].own.count <= maxMessages
            THEN sockets[c].last = "processed" /\ sockets[c].code \in {0, 1000}
            ELSE sockets[c].last = "Rate limit exceeded" /\ sockets[c].code = 1008

(***************************************************************************)
(* launch.main with the stage switches of the command line                 *)
(***************************************************************************)

\* the stage main turns to after the given one
NextStage(stage) ==
    CASE stage = "download" -> "process"
      [] stage = "process" -> "load"
      [] stage = "load" -> "completed"

\* main: if (args.download), if (args.process), if (args.load) with the switch off
StageSkipped(i) ==
    /\ inv[i].pc \in Stages
    /\ alive[ProcOf(i)]
    /\ ~args[inv[i].pc]
    /\ inv' = [inv EXCEPT ![i].pc = NextStage(@)]
    /\ UNCHANGED <<lock, lockTtl, api, status, now, alive, hostOf>>
    /\ UNCHANGED <<loadVars, serveVars, fsVars>>

\* the process is started with any combination of the three switches
StagesInit == LoadIdle /\ ServeIdle /\ LockFree /\ FilesIdle /\ args \in [Stages -> BOOLEAN]

StagesNext == UpdateStep(1) \/ StageSkipped(1)

SpecStages == StagesInit /\ [][StagesNext]_vars

\* the events of a successful run with the given switches, in their order
ExpectedLog(a) ==
    << "lock acquired", "in_progress starting" >>
    \o (IF a["download"] THEN << "in_progress downloading", "download" >> ELSE << >>)
    \o (IF a["process"] THEN << "in_progress processing", "merge", "validate", "rename" >> ELSE << >>)
    \o (IF a["load"] THEN << "in_progress loading", "load" >> ELSE << >>)
    \o << "completed", "releaseLock" >>

\* the run of invocation i has returned 'success'
Succeeded(i) == inv[i].pc = "done" /\ inv[i].result = "success"

\* the events of a successful run are those of ExpectedLog, and it leaves the status
\* 'completed' and the lock released
SuccessOrder ==
    Succeeded(1) => (inv[1].log = ExpectedLog(args) /\ status = "completed" /\ lock = NoLock)

\* the load of invocation i has been started after this run validated the merged file and
\* renamed it into place, and the file it reads is that file
LoadAfterPublish(i) ==
    \A n \in 1..Len(inv[i].log) :
        inv[i].log[n] = "load" =>
            /\ \E m \in 1..(n - 1) :
                  inv[i].log[m] = "rename" /\ \E v \in 1..(m - 1) : inv[i].log[v] = "validate"
            /\ inv[i].pc = "loading" => (csvFile = hist.merged /\ validateCsvFile(csvFile))

C30_RecordBounds ==
    /\ \A r \in Written : 0 <= r.start /\ r.start <= r.end /\ r.end <= MaxCoord
    /\ \A x \in tempKey \cup {pipeline[i] : i \in 1..Len(pipeline)} :
          x.score = x.member.end /\ x.score \in Coords

\* C30 witness: a load is done whose file has an interval that begins at 0 and two that end
\* at MaxCoord; its records reach both ends of the coordinates
C30_Witness ==
    /\ lpc = "done"
    /\ \E i, j \in 1..Len(file) : i # j /\ file[i].end_int = MaxCoord /\ file[j].end_int = MaxCoord
    /\ \E r \in Members(ranges) : r.start = 0
    /\ \E r \in Members(ranges) : r.end = MaxCoord

(***************************************************************************)
(* ip2int.  An address is the sequence of its four octets; an octet has    *)
(* OctetBits bits and the word of the bitwise operators has four times as  *)
(* many, so that the first octet reaches the sign bit of the word as it    *)
(* does with 8 and 32 bits.                                                *)
(***************************************************************************)
Radix == Pow2(OctetBits)
WordSize == Pow2(4 * OctetBits)
Octets == 0..(Radix - 1)
Quads == [1..4 -> Octets]

\* ToInt32 of the operands of << : the value modulo the word size, as a signed integer
ToInt32(x) ==
    LET m == x % WordSize
    IN IF m >= WordSize \div 2 THEN m - WordSize ELSE m

\* ipInt << 8
ShiftLeft8(x) == ToInt32(ToInt32(x) * Radix)

\* variant of ToUint32 that leaves the signed value as it is
ToUint32_Signed(x) == x

\* x >>> 0
ToUint32(x) == x % WordSize

\* ip2int(ip) is called: ip.split('.') and reduce(..., 0)
Ip2intCall(quad) ==
    /\ conv.pc \in {"idle", "returned"}
    /\ conv' = [pc |-> "reduce", ip |-> quad, i |-> 0, ipInt |-> 0, out |-> 0]

\* one call of the reducer: (ipInt << 8) + parseInt(octet, 10)
Ip2intReduce ==
    /\ conv.pc = "reduce"
    /\ conv.i < 4
    /\ conv' = [conv EXCEPT !.i = @ + 1, !.ipInt = ShiftLeft8(@) + conv.ip[conv.i + 1]]

\* the result of reduce, >>> 0, is returned
Ip2intReturn ==
    /\ conv.pc = "reduce"
    /\ conv.i = 4
    /\ conv' = [conv EXCEPT !.pc = "returned", !.out = ToUint32(conv.ipInt)]

Ip2intNext ==
    /\ \/ \E quad \in Quads : Ip2intCall(quad)
       \/ Ip2intReduce
       \/ Ip2intReturn
    /\ UNCHANGED <<staging, tempCsvFile, csvFile, backup, results, runs, hist, args, rt, other, vc>>
    /\ UNCHANGED <<loadVars, serveVars, lockVars>>

Ip2intInit == LoadIdle /\ ServeIdle /\ LockIdle

SpecIp2int == Ip2intInit /\ [][Ip2intNext]_vars

\* the unsigned integer of an address, its octets read as big-endian digits: the value
\* ipTools.toLong gives the lookup path ('10.0.0.1' is 167772161)
BigEndian(quad) == ((quad[1] * Radix + quad[2]) * Radix + quad[3]) * Radix + quad[4]

\* the four octets of an unsigned integer
OctetsOf(n) ==
    [j \in 1..4 |-> CASE j = 1 -> n \div (Radix * Radix * Radix)
                      [] j = 2 -> (n \div (Radix * Radix)) % Radix
                      [] j = 3 -> (n \div Radix) % Radix
                      [] j = 4 -> n % Radix]

\* C31: what ip2int returns for a.b.c.d is a*2^24 + b*2^16 + c*2^8 + d, an unsigned value
\* below 2^32, also when the first octet has its high bit set and the shift went through
\* negative values; the address can be read back from it (ip2int is injective), and it is the
\* integer the lookup path uses.
C31_Ip2int ==
    conv.pc = "returned" =>
        /\ conv.out = BigEndian(conv.ip)
        /\ conv.out \in 0..(WordSize - 1)
        /\ OctetsOf(conv.out) = conv.ip

\* C31 witness: an address whose first octet has the high bit set was converted, and the
\* reduce had gone through a negative value
C31_Witness ==
    /\ conv.pc = "returned"
    /\ conv.ip[1] >= Radix \div 2
    /\ conv.ipInt < 0
    /\ conv.out >= WordSize \div 2

(***************************************************************************)
(* Whose lock a run releases                                               *)
(***************************************************************************)

\* the lock text was written by the acquireLock of invocation i
WrittenBy(text, i) == text # NoLock /\ text.pid = PidOf(ProcOf(i))

\* invocation i deletes the lock key with its releaseLock in this step
ReleaseDeletes(i) ==
    /\ inv[i].pc \in {"release", "release_err"}
    /\ inv'[i].pc = "done"
    /\ lock # NoLock
    /\ lock' = NoLock

\* C32: the value a run has read back to pass to releaseLock is the value its own
\* acquireLock wrote, and a releaseLock that deletes the lock key deletes a lock the
\* releasing run wrote itself
C32_ReleasesOwnLock ==
    /\ [](\A i \in Invocations : inv[i].lockValue # NoLock => WrittenBy(inv[i].lockValue, i))
    /\ [][\A i \in Invocations : ReleaseDeletes(i) => WrittenBy(lock, i)]_vars

(***************************************************************************)
(* Stale-lock cleanup: acquireLock and POST /admin/cleanup-stale-lock      *)
(***************************************************************************)

\* the host of the server that answers the admin requests
ServerHost == "h1"

\* cleanupStaleLock: isStale = await isLockStale(lockKey); a lock that is not stale makes
\* it return false
CleanCheck ==
    /\ admin.pc \in {"idle", "answered"}
    /\ admin' = IF ServerSeesStale(ServerHost)
                THEN [pc |-> "del", checked |-> lock]
                ELSE [pc |-> "answered", success |-> FALSE]
    /\ UNCHANGED lockVars
    /\ UNCHANGED <<loadVars, fsVars, cache, lk, clock, post, wsVars>>

\* cleanupStaleLock: await client.del(lockKey); the handler answers success: true
CleanDel ==
    /\ admin.pc = "del"
    /\ lock' = NoLock
    /\ lockTtl' = 0
    /\ admin' = [pc |-> "answered", success |-> TRUE]
    /\ UNCHANGED <<api, status, now, alive, hostOf, inv>>
    /\ UNCHANGED <<loadVars, fsVars, cache, lk, clock, post, wsVars>>

\* the updaters and the server run on one host
CleanInit == LockInit /\ hostOf = [p \in Procs |-> ServerHost]

CleanNext ==
    \/ LockNext
    \/ CleanCheck
    \/ CleanDel

SpecClean == CleanInit /\ [][CleanNext]_vars

\* the lock text is that of an update run which is going on in a live process
HeldByLiveRun(text) ==
    /\ text # NoLock
    /\ alive[Owner(text)]
    /\ inv[Owner(text)].pc \notin {"idle", "done"}

\* the DEL of cleanupStaleLock removes the lock key in this step
AdminDeletes == admin.pc = "del" /\ admin'.pc = "answered" /\ lock # NoLock /\ lock' = NoLock

\* the DEL of the acquireLock of invocation i removes the lock key in this step
AcquirerDeletes(i) ==
    inv[i].pc = "acq_del" /\ inv'[i].pc = "acq_set" /\ lock # NoLock /\ lock' = NoLock

\* C33: the DEL that follows a staleness check, in acquireLock and in cleanupStaleLock,
\* never removes the lock of an update run that is going on in a live process, and the DEL
\* of cleanupStaleLock removes the lock value that was checked
C33_CleanupDeletesChecked ==
    [][/\ AdminDeletes => (~HeldByLiveRun(lock) /\ lock = admin.checked)
       /\ \A i \in Invocations : AcquirerDeletes(i) => ~HeldByLiveRun(lock)]_vars

(***************************************************************************)
(* The release of the lock at the end of main() when the store can fail to *)
(* answer the read of the lock value                                       *)
(***************************************************************************)

\* getLockValue: client.get rejects, the catch returns null
GetValueFails(i) ==
    /\ inv[i].pc = "get_value"
    /\ alive[ProcOf(i)]
    /\ inv' = [inv EXCEPT ![i].pc = "starting", ![i].lockValue = NoLock]
    /\ UNCHANGED <<lock, lockTtl, api, status, now, alive, hostOf>>
    /\ UNCHANGED <<loadVars, serveVars, fsVars>>

ReleaseInit == LockInit

ReleaseNext ==
    \/ LockNext
    \/ \E i \in Invocations : GetValueFails(i)

SpecRelease == ReleaseInit /\ [][ReleaseNext]_vars

\* C34: after an invocation of main() that had acquired the lock has returned or thrown,
\* the lock key does not hold the value this invocation set, also when the read of the
\* lock value failed
C34_ReleasedAtEnd ==
    \A i \in Invocations :
        inv[i].pc = "done" => ~WrittenBy(lock, i)

(***************************************************************************)
(* The status key while one run holds the lock and another is refused      *)
(***************************************************************************)

\* invocation i has read back a lock value: it is a run that acquired the lock
Acquired(i) == inv[i].lockValue # NoLock

\* the status a run that acquired the lock writes last
TerminalStatus(i) == IF inv[i].result = "success" THEN "completed" ELSE "failed"

\* C35: while a run holds the lock and is in its pipeline the status key reads
\* 'in_progress', whatever the invocations that did not acquire the lock do; and when
\* every invocation has ended and one of them had acquired the lock, the status key holds
\* the terminal status of that one.
C35_StatusOfHolder ==
    /\ \A i \in Invocations :
          (InPipeline(i) /\ WrittenBy(lock, i)) => status = "in_progress"
    /\ \A i \in Invocations :
          (/\ inv[i].pc = "done" /\ Acquired(i)
           /\ \A j \in Invocations \ {i} : inv[j].pc = "done" /\ ~Acquired(j))
          => status = TerminalStatus(i)

(***************************************************************************)
(* Two deployments on one store.  Each has its prefix, hence its lock and  *)
(* its live key <prefix>ranges; both run load(), whose temporary key is    *)
(* the constant 'arfa45e13grh785gEV4wfw$WF7h'.  The variables of the       *)
(* loader are those of the first deployment; the second loads a file of    *)
(* one row, for which the flattening loop queues a single ZADD.            *)
(***************************************************************************)

\* the merged files of the two deployments
FirstFile == << Row(0, MaxCoord, "a") >>
OtherFile == << Row(0, 0, "g") >>

\* the ZADD commands load() queues for a file of one row
CommandsOf(f) == << ZaddCommand(f[1].start_int, f[1].end_int, << f[1].list >>) >>

\* the second deployment calls load(): redis.del(tempKey), the file is read and flattened
OtherStart ==
    /\ other.lpc \in {"idle", "done", "failed"}
    /\ other.loads < MaxLoads
    /\ tempKey' = {}
    /\ other' = [other EXCEPT !.lpc = "loop", !.loads = @ + 1]

\* the second deployment: pipelineResults = await pipeline.exec()
OtherExec ==
    /\ other.lpc = "loop"
    /\ tempKey' = ExecPipeline(tempKey, CommandsOf(OtherFile))
    /\ other' = [other EXCEPT !.lpc = "written"]

\* the second deployment: tempKeySize = await redis.zcard(tempKey)
OtherCheckTemp ==
    /\ other.lpc = "written"
    /\ other' = [other EXCEPT !.tempKeySize = Cardinality(tempKey),
                              !.lpc = IF Cardinality(tempKey) = 0 THEN "cleanup" ELSE "rename"]
    /\ UNCHANGED tempKey

\* the second deployment: await redis.rename(tempKey, redisPrefix + 'ranges')
OtherRename ==
    /\ other.lpc = "rename"
    /\ IF tempKey = {}
       THEN /\ other' = [other EXCEPT !.lpc = "cleanup"]
            /\ UNCHANGED tempKey
       ELSE /\ other' = [other EXCEPT !.ranges = tempKey, !.lpc = "verify"]
            /\ tempKey' = {}

\* the second deployment: finalKeySize compared with tempKeySize
OtherVerify ==
    /\ other.lpc = "verify"
    /\ other' = [other EXCEPT !.lpc = IF Cardinality(other.ranges) # other.tempKeySize
                                      THEN "cleanup" ELSE "deltemp"]
    /\ UNCHANGED tempKey

\* the second deployment: await redis.del(tempKey) after the rename, or in the catch
OtherDelTemp ==
    /\ other.lpc \in {"deltemp", "cleanup"}
    /\ tempKey' = {}
    /\ other' = [other EXCEPT !.lpc = IF other.lpc = "deltemp" THEN "done" ELSE "failed"]

OtherNext ==
    /\ \/ OtherStart \/ OtherExec \/ OtherCheckTemp
       \/ OtherRename \/ OtherVerify \/ OtherDelTemp
    /\ UNCHANGED <<file, rows, scratch, k, s, pipeline, ranges, tempKeySize, lpc, loads, ipListSize, versions,
                   faults, fault, atStart>>
    /\ UNCHANGED <<serveVars, lockVars>>
    /\ UNCHANGED <<staging, tempCsvFile, csvFile, backup, results, runs, hist, args, rt, conv, vc>>

\* the first deployment is about to load its file, the second has not started
SharedInit ==
    /\ file = FirstFile
    /\ rows = << >>
    /\ scratch = << >>
    /\ k = 0
    /\ s = << >>
    /\ pipeline = << >>
    /\ tempKey = {}
    /\ ranges = {}
    /\ tempKeySize = 0
    /\ lpc = "start"
    /\ loads = 1
    /\ ipListSize = << >>
    /\ versions = << {} >>
    /\ faults = FALSE
    /\ fault = "none"
    /\ atStart = {}
    /\ ServeIdle
    /\ LockIdle

SharedNext ==
    \/ LoadNext /\ UNCHANGED <<serveVars, lockVars, fsVars>>
    \/ OtherNext

SpecShared == SharedInit /\ [][SharedNext]_vars

\* the records load() builds from a file of one row
RecordsOf(f) == {CommandsOf(f)[1].member}

\* C36: the live key of each deployment holds only records built from the merged file of
\* that deployment: what the other deployment writes to, renames from or deletes of its
\* temporary data never reaches it.
C36_TempKeyPerDeployment ==
    /\ Members(ranges) \subseteq RecordsOf(FirstFile)
    /\ Members(other.ranges) \subseteq RecordsOf(OtherFile)

(***************************************************************************)
(* <prefix>ipListSize and the live index                                   *)
(***************************************************************************)

\* router.get('/health'): lindex(<prefix>ipListSize, 0), null when the list is empty
LastUpdate == IF ipListSize = << >> THEN [size |-> 0, gen |-> 0] ELSE ipListSize[1]

\* C37: when no load is going on, the head entry of <prefix>ipListSize describes the
\* dataset in the live index: it was pushed by the load whose rename produced the current
\* content of the live key, and the list is empty when the live key never received a
\* dataset; a load that fails after the file was read leaves the list as it was.
C37_ListDescribesLive ==
    lpc \in {"idle", "done", "failed"} => LastUpdate.gen + 1 = Len(versions)

(***************************************************************************)
(* validateCsvFile and the CSV parser of the loader on the lines the       *)
(* plugins write: start|end|metadata, the metadata wrapped in ~...~ when   *)
(* it contains the delimiter                                               *)
(***************************************************************************)

\* plugins: metadata.includes('|') ? `~${metadata}~` : metadata
QuotedMetadata(line) == line.row.list.name \in PipeNames

\* the characters '|' of the metadata of a line
PipesInMetadata(line) == IF line.row.list.name \in PipeNames THEN 1 ELSE 0

\* csv({ separator: '|', quote: '~' }): the fields the loader's parser reads from a line;
\* a delimiter between two quote characters does not separate
CsvFields(line) == 3 + (IF QuotedMetadata(line) THEN 0 ELSE PipesInMetadata(line))

\* the lines a plugin can write and the merged files made of the header and such lines
StagingLines == {Line("firehol", r.start_int, r.end_int, r.list.name) : r \in Rows}
MergedFiles == {File(lines) : lines \in UNION {[1..n -> StagingLines] : n \in 0..MaxLines}}

\* validateCsvFile(file) is called
ValidateCall(f) ==
    /\ vc.pc \in {"idle", "returned"}
    /\ vc' = [pc |-> "called", file |-> f]

\* validateCsvFile returns
ValidateReturn ==
    /\ vc.pc = "called"
    /\ vc' = [pc |-> "returned", file |-> vc.file, valid |-> validateCsvFile(vc.file)]

ValidateNext ==
    /\ \/ \E f \in MergedFiles : ValidateCall(f)
       \/ ValidateReturn
    /\ UNCHANGED <<staging, tempCsvFile, csvFile, backup, results, runs, hist, args, rt, conv, other>>
    /\ UNCHANGED <<loadVars, serveVars, lockVars>>

ValidateInit == LoadIdle /\ ServeIdle /\ LockIdle

SpecValidate == ValidateInit /\ [][ValidateNext]_vars

\* C38: a merged file made of the header and at least one line as the plugins write them
\* passes validateCsvFile, also when the metadata of a line contains '|' and is wrapped in
\* ~...~; and each line validation looks at is split into three parts exactly when the
\* parser of the loader reads three fields from it.
C38_ValidationMatchesParser ==
    vc.pc = "returned" =>
        /\ Len(vc.file.lines) >= 1 => vc.valid
        /\ \A n \in 1..Len(vc.file.lines) :
              (LineParts(vc.file.lines[n]) = 3) <=> (CsvFields(vc.file.lines[n]) = 3)

====
